---- MODULE Spec2Model ----
(***************************************************************************)
(* A model of alliumd, the supervisory daemon of Allium                    *)
(* (crates/alliumd/src/alliumd.rs): the persisted state record, the        *)
(* volume/brightness adjustments, the hotkey router, the process           *)
(* supervisor and the power controller.                                    *)
(***************************************************************************)
EXTENDS Integers, Sequences, FiniteSets, TLC

(***************************************************************************)
(* Bounds of the model.                                                    *)
(***************************************************************************)
\* The wall clock, in hours, runs over 0..MaxClock in ticks of TickHours.
MaxClock == 36
TickHours == 12

(***************************************************************************)
(* Program constants.                                                      *)
(***************************************************************************)
\* AlliumDState::new(): the defaults of a record that is absent or corrupt.
DefaultVolume == 0
DefaultBrightness == 50
\* add_volume clamps to 0..VOLUME_MAX, add_brightness to 0..BRIGHTNESS_MAX.
VOLUME_MAX == 20
BRIGHTNESS_MAX == 100
\* brightness: u8, and the i8 it is cast to in add_brightness.
U8_MAX == 255
I8_MAX == 127
\* volume: i32.
I32_MAX == 2147483647

(***************************************************************************)
(* serde_json: the state record as text.  The text is a sequence of        *)
(* tokens: braces, field names, a sign and decimal digits.                 *)
(***************************************************************************)
DigitChars == <<"0", "1", "2", "3", "4", "5", "6", "7", "8", "9">>

DigitChar(d) == DigitChars[d + 1]

IsDigitChar(c) == \E d \in 0..9 : DigitChars[d + 1] = c

DigitVal(c) == CHOOSE d \in 0..9 : DigitChars[d + 1] = c

RECURSIVE DigitsOf(_)
\* The decimal digits of n >= 0, most significant first.
DigitsOf(n) ==
    IF n < 10 THEN << DigitChar(n) >>
    ELSE DigitsOf(n \div 10) \o << DigitChar(n % 10) >>

RECURSIVE DigitsOfNeg(_)
\* The decimal digits of -n for n < 0, without negating n (-n does not fit an
\* i32 for the least one).
DigitsOfNeg(n) ==
    LET d == (10 - (n % 10)) % 10
        q == (n + d) \div 10
    IN  IF q = 0 THEN << DigitChar(d) >>
        ELSE DigitsOfNeg(q) \o << DigitChar(d) >>

\* A variant of IntText that loses the sign.
IntTextUnsigned(n) == IF n < 0 THEN DigitsOfNeg(n) ELSE DigitsOf(n)

\* itoa: a signed integer as JSON number text.
IntText(n) == IF n < 0 THEN << "-" >> \o DigitsOfNeg(n) ELSE DigitsOf(n)

\* serde_json::to_string(&AlliumDState): the fields in declaration order.
to_string(s) ==
    << "{", "time" >> \o IntText(s.time)
        \o << "volume" >> \o IntText(s.volume)
        \o << "brightness" >> \o IntText(s.brightness)
        \o << "}" >>

\* A JSON number's digits: not empty, digits only, no leading zero.
IsDigits(t) ==
    /\ Len(t) > 0
    /\ \A i \in 1..Len(t) : IsDigitChar(t[i])
    /\ (Len(t) > 1 => t[1] # "0")

RECURSIVE ValueOf(_)
ValueOf(t) ==
    IF Len(t) = 0 THEN 0
    ELSE 10 * ValueOf(SubSeq(t, 1, Len(t) - 1)) + DigitVal(t[Len(t)])

NoValue == [ok |-> FALSE, val |-> 0]

\* An unsigned field (u8, or the timestamp): digits whose value is at most hi.
ParseUnsigned(t, hi) ==
    IF IsDigits(t) /\ Len(t) <= 9 /\ ValueOf(t) <= hi
    THEN [ok |-> TRUE, val |-> ValueOf(t)]
    ELSE NoValue

\* Whether the digits ds, negated when neg, fit an i32: at most nine digits,
\* or ten digits that do not pass I32_MAX (one more for the negative side).
FitsI32(ds, neg) ==
    \/ Len(ds) <= 9
    \/ /\ Len(ds) = 10
       /\ LET hi == ValueOf(SubSeq(ds, 1, 9))
              lo == DigitVal(ds[10])
          IN  \/ hi < I32_MAX \div 10
              \/ hi = I32_MAX \div 10 /\ lo <= (I32_MAX % 10) + (IF neg THEN 1 ELSE 0)

\* A signed field (i32): an optional sign, then digits.
ParseSigned(t) ==
    LET neg == Len(t) > 0 /\ t[1] = "-"
        ds == IF neg THEN SubSeq(t, 2, Len(t)) ELSE t
        hi == ValueOf(SubSeq(ds, 1, Len(ds) - 1))
        lo == DigitVal(ds[Len(ds)])
    IN  IF IsDigits(ds) /\ FitsI32(ds, neg)
        THEN [ok |-> TRUE,
              val |-> IF neg THEN (0 - 10 * hi) - lo ELSE 10 * hi + lo]
        ELSE NoValue

\* The first position of token tok in t, 0 when it is not there.
Find(t, tok) ==
    IF \E i \in 1..Len(t) : t[i] = tok
    THEN CHOOSE i \in 1..Len(t) : t[i] = tok /\ \A j \in 1..(i - 1) : t[j] # tok
    ELSE 0

NoState == [ok |-> FALSE, state |-> [time |-> 0, volume |-> 0, brightness |-> 0]]

\* serde_json::from_str::<AlliumDState>: time may be missing (serde default
\* Utc::now), volume must be an i32 and brightness a u8.
from_str(t, clock) ==
    LET n == Len(t)
        iv == Find(t, "volume")
        ib == Find(t, "brightness")
    IN  IF n < 4 \/ t[1] # "{" \/ t[n] # "}" \/ iv < 2 \/ ib < iv
        THEN NoState
        ELSE LET hasTime == t[2] = "time"
                 tm == IF hasTime THEN ParseUnsigned(SubSeq(t, 3, iv - 1), I32_MAX)
                       ELSE [ok |-> iv = 2, val |-> clock]
                 vol == ParseSigned(SubSeq(t, iv + 1, ib - 1))
                 bri == ParseUnsigned(SubSeq(t, ib + 1, n - 1), U8_MAX)
             IN  IF tm.ok /\ vol.ok /\ bri.ok
                 THEN [ok |-> TRUE,
                       state |-> [time |-> tm.val, volume |-> vol.val,
                                  brightness |-> bri.val]]
                 ELSE NoState

(***************************************************************************)
(* The state record on storage: Absent, or the text of the file.           *)
(***************************************************************************)
Absent == << "absent" >>

\* AlliumDState::new()
NewState(clock) ==
    [time |-> clock, volume |-> DefaultVolume, brightness |-> DefaultBrightness]

\* A variant of Load that returns the error of a record it cannot read or
\* parse, and leaves the file.
LoadKeep(f, clock, readOk, dateOk, removeOk) ==
    LET parsed == IF readOk THEN from_str(f, clock) ELSE NoState
        fresh == [ok |-> TRUE, found |-> "absent", state |-> NewState(clock),
                  file |-> f, clock |-> clock]
    IN  IF f = Absent THEN fresh
        ELSE IF parsed.ok
        THEN [fresh EXCEPT !.found = "parsed", !.state = parsed.state,
                           !.clock = IF clock < parsed.state.time
                                     THEN parsed.state.time ELSE clock]
        ELSE [fresh EXCEPT !.ok = FALSE,
                           !.found = IF readOk THEN "unparsable" ELSE "unreadable"]

\* AlliumDState::load().  readOk: read_to_string succeeds; dateOk: the date and
\* hwclock commands run; removeOk: remove_file succeeds.  The result carries
\* how the record was found, the state returned, the file and the system
\* clock afterwards.
Load(f, clock, readOk, dateOk, removeOk) ==
    LET parsed == IF readOk THEN from_str(f, clock) ELSE NoState
        fresh == [ok |-> TRUE, found |-> "absent", state |-> NewState(clock),
                  file |-> f, clock |-> clock]
    IN  IF f = Absent THEN fresh
        ELSE IF parsed.ok
        THEN LET this == [fresh EXCEPT !.found = "parsed", !.state = parsed.state]
             IN  IF clock < parsed.state.time
                 THEN IF dateOk THEN [this EXCEPT !.clock = parsed.state.time]
                      ELSE [this EXCEPT !.ok = FALSE]
                 ELSE this
        ELSE LET bad == [fresh EXCEPT
                            !.found = IF readOk THEN "unparsable" ELSE "unreadable"]
             IN  IF removeOk THEN [bad EXCEPT !.file = Absent]
                 ELSE [bad EXCEPT !.ok = FALSE]

\* AlliumDState::save(): File::create truncates the file, write_all then
\* writes the text.  created: File::create succeeds; written: how many tokens
\* write_all gets out before it fails (all of them when it succeeds).
Save(s, f, created, written) ==
    LET json == to_string(s)
    IN  IF ~created THEN [ok |-> FALSE, file |-> f]
        ELSE IF written >= Len(json) THEN [ok |-> TRUE, file |-> json]
        ELSE [ok |-> FALSE, file |-> SubSeq(json, 1, written)]

(***************************************************************************)
(* More bounds and constants.                                              *)
(***************************************************************************)
\* The observation counters (saves, power-offs, ...) saturate at MaxCount.
MaxCount == 2
\* IDLE_TIMEOUT of handle_suspend, in the ticks of the time spent suspended.
IdleTicks == 2
\* At most MaxEvents key events are followed where they are counted.
MaxEvents == 4
\* At most MaxHeld keys are held down at a time.
MaxHeld == 2
\* Duration::hours(24) in update_play_time.
PlayTimeLimit == 24
\* common::constants::BATTERY_SHUTDOWN_THRESHOLD, a percentage.  The constant
\* is defined outside alliumd.rs; the model takes 5 for it.
BATTERY_SHUTDOWN_THRESHOLD == 5

(***************************************************************************)
(* The daemon (struct AlliumD), its surroundings and what is observed.     *)
(***************************************************************************)
VARIABLES
    state,                  \* AlliumD::state: [time, volume, brightness]
    file,                   \* the state record on storage (ALLIUMD_STATE)
    now,                    \* the system clock (Utc::now)
    pc,                     \* where the daemon's single thread of control is
    ret,                    \* where handle_quit returns to
    term,                   \* the terminate() call in progress
    main,                   \* AlliumD::main, the foreground process
    menu,                   \* AlliumD::menu, "none" or the menu overlay
    orphans,                \* live processes whose handle was dropped
    keys,                   \* AlliumD::keys, the keys whose entry is true
    is_menu_pressed_alone,  \* AlliumD::is_menu_pressed_alone
    pressed_menu,           \* pressed_menu.elapsed() against LONG_PRESS_DURATION
    is_terminating,         \* AlliumD::is_terminating
    power_settings,         \* AlliumD::power_settings
    battery,                \* run_event_loop's battery: the last reading
    game_info,              \* the ALLIUM_GAME_INFO file: NoGame or a session
    held,                   \* the keys whose last event was Pressed
    obs,                    \* what has been observed since the start
    step                    \* what the daemon's last step did

vars ==
    << state, file, now, pc, ret, term, main, menu, orphans, keys,
       is_menu_pressed_alone, pressed_menu, is_terminating, power_settings,
       battery, game_info, held, obs, step >>

\* The current state as one record, so that the handlers below are operators
\* from a state (and the outcome of their I/O) to the state they leave.
S ==
    [state |-> state, file |-> file, now |-> now, pc |-> pc, ret |-> ret,
     term |-> term, main |-> main, menu |-> menu, orphans |-> orphans,
     keys |-> keys, is_menu_pressed_alone |-> is_menu_pressed_alone,
     pressed_menu |-> pressed_menu, is_terminating |-> is_terminating,
     power_settings |-> power_settings, battery |-> battery,
     game_info |-> game_info, held |-> held, obs |-> obs, step |-> step]

\* pressed_menu.elapsed() is read only while self.keys has Menu: the time
\* since the press is followed only as long as it can be read.
PressTime(r) == IF "Menu" \in r.keys THEN r.pressed_menu ELSE "short"

Set(r) ==
    /\ state' = r.state
    /\ file' = r.file
    /\ now' = r.now
    /\ pc' = r.pc
    /\ ret' = r.ret
    /\ term' = r.term
    /\ main' = r.main
    /\ menu' = r.menu
    /\ orphans' = r.orphans
    /\ keys' = r.keys
    /\ is_menu_pressed_alone' = r.is_menu_pressed_alone
    /\ pressed_menu' = PressTime(r)
    /\ is_terminating' = r.is_terminating
    /\ power_settings' = r.power_settings
    /\ battery' = r.battery
    /\ game_info' = r.game_info
    /\ held' = r.held
    /\ obs' = r.obs
    /\ step' = r.step

Min(a, b) == IF a < b THEN a ELSE b

\* Ord::clamp
Clamp(x, lo, hi) == IF x < lo THEN lo ELSE IF x > hi THEN hi ELSE x

Bump(n) == Min(n + 1, MaxCount)

(***************************************************************************)
(* The outcome of the I/O of one step.  Each field is one kind of call to  *)
(* a collaborator; a step fails at the first call whose field says so.     *)
(***************************************************************************)
AllOk ==
    [platform |-> TRUE,     \* set_volume, set_brightness, suspend, shutdown
     battery |-> TRUE,      \* Battery::update
     save |-> "ok",         \* AlliumDState::save: "ok", "create" or "write"
     written |-> 0,         \* tokens written when save fails in write_all
     gi |-> TRUE,           \* reading or deleting the game info file
     db |-> TRUE,           \* Database::new
     spawn |-> TRUE,        \* spawning the foreground or the menu process
     cmd |-> TRUE,          \* running a helper (say, show, show-hotkeys, ...)
     wrap |-> TRUE]         \* arithmetic overflow wraps (release) or panics

\* The outcomes in which at most one call fails, for the kinds of call a
\* step can make.
IOsOf(kinds) ==
    {AllOk}
    \cup (IF "platform" \in kinds THEN {[AllOk EXCEPT !.platform = FALSE]} ELSE {})
    \cup (IF "battery" \in kinds THEN {[AllOk EXCEPT !.battery = FALSE]} ELSE {})
    \cup (IF "save" \in kinds
          THEN {[AllOk EXCEPT !.save = "create"],
                [AllOk EXCEPT !.save = "write", !.written = 3]}
          ELSE {})
    \cup (IF "gi" \in kinds THEN {[AllOk EXCEPT !.gi = FALSE]} ELSE {})
    \cup (IF "db" \in kinds THEN {[AllOk EXCEPT !.db = FALSE]} ELSE {})
    \cup (IF "spawn" \in kinds THEN {[AllOk EXCEPT !.spawn = FALSE]} ELSE {})
    \cup (IF "cmd" \in kinds THEN {[AllOk EXCEPT !.cmd = FALSE]} ELSE {})
    \cup (IF "wrap" \in kinds THEN {[AllOk EXCEPT !.wrap = FALSE]} ELSE {})

\* The calls of handle_quit up to its first await, and after terminate().
QuitCalls == {"save", "gi", "db"}

FinishCalls == {"cmd", "platform"}

\* The calls a key event can lead to.
KeyCalls(e) ==
    CASE e.key \in {"Up", "Down", "Left", "Right", "VolUp", "VolDown"} ->
            {"platform", "wrap"}
      [] e.key = "Menu" -> {"cmd", "gi", "spawn"}
      [] e.key \in {"Power", "LidClose"} ->
            {"platform", "cmd", "gi"} \cup QuitCalls
      [] OTHER -> {}

(***************************************************************************)
(* What is observed.                                                       *)
(***************************************************************************)
NoHold == [other |-> FALSE, shows |-> 0, used |-> FALSE]

\* The ticks since handle_suspend was entered and since its loop last began
\* a sleep(IDLE_TIMEOUT), both up to IdleTicks.
NoAsleep == [entry |-> 0, sleep |-> 0]

NoSaved == [ok |-> FALSE, state |-> [time |-> 0, volume |-> 0, brightness |-> 0]]

NoObs ==
    [saves |-> 0,           \* calls of AlliumDState::save
     saved |-> NoSaved,     \* the state the file holds since the last save
     main_terms |-> 0,      \* calls of terminate(&mut self.main)
     poweroffs |-> 0,       \* platform.shutdown() called by handle_quit
     charge_offs |-> 0,     \* platform.shutdown() called by handle_charging
     hw |-> "awake",        \* the platform: "awake", or "suspended" by suspend()
     asleep |-> NoAsleep,   \* the time spent in handle_suspend
     events |-> 0,          \* key events handled, where they are counted
     boot |-> 0,            \* the clock when AlliumD::new spawned the foreground
     hold |-> NoHold]       \* the hold of Menu under way

NoEvent == [kind |-> "none", key |-> "none"]

NoStep ==
    [event |-> NoEvent,     \* the key event handle_key_event got in the step
     polled |-> NoEvent,    \* the key event a nested wait's poll() got in it
     err |-> "none",        \* the call whose Err ended the daemon in the step
     trigger |-> "none",    \* what called handle_quit in the step, if anything
     checked |-> FALSE,     \* the step read the battery and checked it
     fired |-> "none",      \* the action the key event fired, if any
     found |-> "none",      \* how load found the record
     hold |-> NoHold,       \* the hold of Menu that the step's release ended
     add |-> 0,             \* the amount wanted of add_volume / add_brightness
     was |-> 0,             \* the volume / brightness it was called with
     pt |-> "none",         \* how update_play_time ended
     elapsed |-> 0,         \* the play time update_play_time computed
     term_end |-> "none",   \* how a terminate() call ended in the step
     waited |-> FALSE,      \* the step is select!'s self.main.wait() branch
     tick |-> "none",       \* what handle_charging's tick read: "charging", "unplugged"
     sigs |-> << >>]        \* the signals that terminate() call had sent

\* A step begins with an empty record of what it did.
Begin(s) == [s EXCEPT !.step = NoStep]

\* An Err (of the call named) that reaches run_event_loop's caller: the
\* daemon exits.
Fail(s, call) == [s EXCEPT !.pc = "failed", !.step.err = call]

Failed(s) == s.pc = "failed"

(***************************************************************************)
(* Child processes.  A handle is "running", "stopped" (by SIGSTOP),        *)
(* "zombie" (exited, not waited for) or "reaped" (waited for: Child::id()  *)
(* is None); the menu handle is "none" when AlliumD::menu is None.         *)
(***************************************************************************)
Live(c) == c \in {"running", "stopped"}

Exited(c) == c \in {"zombie", "reaped"}

\* signal(): kill(pid, sig) is called only when the child has a pid.
HasPid(c) == c \notin {"none", "reaped"}

\* The child after signal(child, sig).  A stopped child keeps SIGTERM pending.
Signal(c, sig) ==
    IF ~Live(c) THEN c
    ELSE CASE sig = "SIGSTOP" -> "stopped"
           [] sig = "SIGCONT" -> "running"
           [] sig = "SIGKILL" -> "zombie"
           [] OTHER -> c

(***************************************************************************)
(* self.state.save(), AlliumDState::load()                                 *)
(***************************************************************************)
\* self.state.save(): io.save says whether File::create or write_all fails,
\* io.written how far write_all gets when it does.
save_state(s, io) ==
    LET sv == Save(s.state, s.file, io.save # "create",
                   IF io.save = "ok" THEN Len(to_string(s.state)) ELSE io.written)
        s1 == [s EXCEPT !.file = sv.file,
                        !.obs.saves = Bump(@),
                        !.obs.saved = IF sv.ok THEN [ok |-> TRUE, state |-> s.state]
                                      ELSE NoSaved]
    IN  IF sv.ok THEN s1 ELSE Fail(s1, "save")

\* self.state.save() cut short by a crash of the daemon or a loss of power
\* after File::create, with k tokens of the text written (all of them when
\* the crash comes after write_all).
save_crashed(s, k) ==
    [save_state(s, [AllOk EXCEPT !.save = "write", !.written = k]) EXCEPT
        !.pc = s.pc, !.step.err = "none", !.step.fired = "save_crash"]

\* The outcomes of load's I/O: at most one call fails.
LoadIOs ==
    { [read |-> TRUE, date |-> TRUE, remove |-> TRUE],
      [read |-> FALSE, date |-> TRUE, remove |-> TRUE],
      [read |-> TRUE, date |-> FALSE, remove |-> TRUE],
      [read |-> TRUE, date |-> TRUE, remove |-> FALSE] }

\* self.state = AlliumDState::load()?, as in AlliumD::new
load_state(s, io) ==
    LET l == Load(s.file, s.now, io.read, io.date, io.remove)
        s1 == [s EXCEPT !.file = l.file, !.now = l.clock,
                        !.obs.saved = IF l.file = s.file THEN @ ELSE NoSaved,
                        !.step.fired = "load", !.step.found = l.found]
    IN  IF l.ok THEN [s1 EXCEPT !.state = l.state]
        ELSE Fail(s1, IF l.found = "parsed" THEN "date" ELSE "remove")

(***************************************************************************)
(* add_volume, add_brightness                                              *)
(***************************************************************************)
\* a + b in i32, wrapped around on overflow; b is -1 or 1.
WrapAdd32(a, b) ==
    IF b > 0 /\ a > I32_MAX - b THEN (0 - I32_MAX) - 1 + (a - (I32_MAX - b) - 1)
    ELSE IF b < 0 /\ a < ((0 - I32_MAX) - 1) - b THEN I32_MAX
    ELSE a + b

Overflows32(a, b) ==
    \/ b > 0 /\ a > I32_MAX - b
    \/ b < 0 /\ a < ((0 - I32_MAX) - 1) - b

\* A variant of add_volume that does not clamp.
add_volume_unclamped(s, add, io) ==
    LET s1 == [s EXCEPT !.state.volume = WrapAdd32(s.state.volume, add),
               !.step.fired = "volume", !.step.add = add,
               !.step.was = s.state.volume]
    IN  IF ~io.platform THEN Fail(s1, "platform") ELSE s1

\* AlliumD::add_volume
add_volume(s, add, io) ==
    LET s1 == [s EXCEPT !.state.volume =
                   Clamp(WrapAdd32(s.state.volume, add), 0, VOLUME_MAX),
               !.step.fired = "volume", !.step.add = add,
               !.step.was = s.state.volume]
    IN  IF Overflows32(s.state.volume, add) /\ ~io.wrap THEN Fail(s, "overflow")
        ELSE IF ~io.platform THEN Fail(s1, "platform")
        ELSE s1

\* `x as i8` of a u8
AsI8(x) == IF x > I8_MAX THEN x - (U8_MAX + 1) ELSE x

\* a + b in i8, wrapped around on overflow
WrapAdd8(a, b) ==
    IF a + b > I8_MAX THEN a + b - (U8_MAX + 1)
    ELSE IF a + b < (0 - I8_MAX) - 1 THEN a + b + (U8_MAX + 1)
    ELSE a + b

Overflows8(a, b) == a + b > I8_MAX \/ a + b < (0 - I8_MAX) - 1

\* AlliumD::add_brightness
add_brightness(s, add, io) ==
    LET b == AsI8(s.state.brightness)
        s1 == [s EXCEPT !.state.brightness =
                   Clamp(WrapAdd8(b, add), 0, BRIGHTNESS_MAX),
               !.step.fired = "brightness", !.step.add = add,
               !.step.was = s.state.brightness]
    IN  IF Overflows8(b, add) /\ ~io.wrap THEN Fail(s, "overflow")
        ELSE IF ~io.platform THEN Fail(s1, "platform")
        ELSE s1

(***************************************************************************)
(* update_play_time                                                        *)
(***************************************************************************)
NoGame == [has_menu |-> FALSE, start_time |-> -1]

\* AlliumD::is_ingame: the game info file exists.
is_ingame(s) == s.game_info # NoGame

\* GameInfo::play_time: the time since the session's start.
play_time(s) == s.now - s.game_info.start_time

\* A variant of update_play_time that discards a session of exactly the limit.
update_play_time_strict(s, io) ==
    IF ~is_ingame(s) THEN [s EXCEPT !.step.pt = "skipped"]
    ELSE IF ~io.gi THEN Fail([s EXCEPT !.step.pt = "error_read"], "gi")
    ELSE IF play_time(s) >= PlayTimeLimit
    THEN [s EXCEPT !.step.pt = "discarded", !.step.elapsed = play_time(s)]
    ELSE IF ~io.db
    THEN Fail([s EXCEPT !.step.pt = "error_db", !.step.elapsed = play_time(s)],
              "db")
    ELSE [s EXCEPT !.step.pt = "added", !.step.elapsed = play_time(s)]

\* AlliumD::update_play_time
update_play_time(s, io) ==
    IF ~is_ingame(s) THEN [s EXCEPT !.step.pt = "skipped"]
    ELSE IF ~io.gi THEN Fail([s EXCEPT !.step.pt = "error_read"], "gi")
    ELSE IF play_time(s) > PlayTimeLimit
    THEN [s EXCEPT !.step.pt = "discarded", !.step.elapsed = play_time(s)]
    ELSE IF ~io.db
    THEN Fail([s EXCEPT !.step.pt = "error_db", !.step.elapsed = play_time(s)],
              "db")
    ELSE [s EXCEPT !.step.pt = "added", !.step.elapsed = play_time(s)]

(***************************************************************************)
(* terminate, handle_quit                                                  *)
(***************************************************************************)
NoTerm == [target |-> "none", expired |-> FALSE, cont |-> "none", sigs |-> << >>]

Child(s, target) == IF target = "main" THEN s.main ELSE s.menu

SetChild(s, target, c) ==
    IF target = "main" THEN [s EXCEPT !.main = c] ELSE [s EXCEPT !.menu = c]

\* terminate(child) up to its await: SIGTERM, then timeout(5 s, child.wait()).
\* cont names the code that follows the call.
terminate_begin(s, target, cont) ==
    [s EXCEPT !.pc = "terminate",
              !.term = [target |-> target, expired |-> FALSE, cont |-> cont,
                        sigs |-> IF HasPid(Child(s, target))
                                 THEN << "SIGTERM" >> ELSE << >>],
              !.obs.main_terms = IF target = "main" THEN Bump(@) ELSE @]

\* A variant of terminate_end that sends SIGKILL whether the child has exited
\* or not.
terminate_end_kill(s) ==
    LET c == Child(s, s.term.target)
    IN  [SetChild(s, s.term.target, IF Exited(c) THEN "reaped" ELSE "zombie")
            EXCEPT !.term = NoTerm,
                   !.step.term_end = IF Exited(c) THEN "exited" ELSE "timeout",
                   !.step.sigs = Append(s.term.sigs, "SIGKILL")]

\* terminate(child) after its await: child.wait() returned (the child is
\* reaped), or the timeout did and SIGKILL is sent.
terminate_end(s) ==
    LET c == Child(s, s.term.target)
    IN  IF Exited(c)
        THEN [SetChild(s, s.term.target, "reaped") EXCEPT
                  !.term = NoTerm, !.step.term_end = "exited",
                  !.step.sigs = s.term.sigs]
        ELSE [SetChild(s, s.term.target, Signal(c, "SIGKILL")) EXCEPT
                  !.term = NoTerm, !.step.term_end = "timeout",
                  !.step.sigs = IF HasPid(c) THEN Append(s.term.sigs, "SIGKILL")
                                ELSE s.term.sigs]

\* A variant of quit_finish that calls platform.shutdown() before the
\* acknowledgment.
quit_finish_off_first(s, io) ==
    LET s1 == [s EXCEPT !.is_terminating = TRUE, !.obs.poweroffs = Bump(@)]
    IN  IF ~io.platform THEN Fail(s1, "platform")
        ELSE IF ~io.cmd THEN Fail(s1, "cmd")
        ELSE [s1 EXCEPT !.pc = s.ret, !.ret = "loop"]

\* handle_quit after terminate(&mut self.main): the flag, the acknowledgment
\* (show --darken, say), platform.shutdown().
quit_finish(s, io) ==
    LET s1 == [s EXCEPT !.is_terminating = TRUE]
    IN  IF ~io.cmd THEN Fail(s1, "cmd")
        ELSE LET s2 == [s1 EXCEPT !.obs.poweroffs = Bump(@)]
             IN  IF ~io.platform THEN Fail(s2, "platform")
                 ELSE [s2 EXCEPT !.pc = s.ret, !.ret = "loop"]

\* A variant of quit_sequence that saves the state with the timestamp it has.
quit_sequence_stale(s, retpc, io) ==
    LET s1 == save_state([s EXCEPT !.ret = retpc], io)
        s2 == IF is_ingame(s1) THEN update_play_time(s1, io) ELSE s1
    IN  IF Failed(s1) THEN s1
        ELSE IF Failed(s2) THEN s2
        ELSE IF is_ingame(s1) /\ s1.menu # "none"
        THEN terminate_begin(s2, "menu", "quit_main")
        ELSE terminate_begin(s2, "main", "quit_flag")

\* handle_quit past its guard, up to its first await: the timestamp, the
\* save, the play time, terminate() of the menu overlay or of the foreground
\* process.  retpc is where the caller goes on when handle_quit returns.
quit_sequence(s, retpc, io) ==
    LET s1 == save_state([s EXCEPT !.state.time = s.now, !.ret = retpc], io)
        s2 == IF is_ingame(s1) THEN update_play_time(s1, io) ELSE s1
    IN  IF Failed(s1) THEN s1
        ELSE IF Failed(s2) THEN s2
        ELSE IF is_ingame(s1) /\ s1.menu # "none"
        THEN terminate_begin(s2, "menu", "quit_main")
        ELSE terminate_begin(s2, "main", "quit_flag")

\* A variant of handle_quit without the is_terminating guard.
handle_quit_unguarded(s, trigger, retpc, io) ==
    quit_sequence([s EXCEPT !.step.trigger = trigger], retpc, io)

\* A variant of handle_quit whose guard clears is_terminating.
handle_quit_rearm(s, trigger, retpc, io) ==
    LET s0 == [s EXCEPT !.step.trigger = trigger]
    IN  IF s.is_terminating THEN [s0 EXCEPT !.pc = retpc, !.is_terminating = FALSE]
        ELSE quit_sequence(s0, retpc, io)

\* AlliumD::handle_quit, called by trigger
handle_quit(s, trigger, retpc, io) ==
    LET s0 == [s EXCEPT !.step.trigger = trigger]
    IN  IF s.is_terminating THEN [s0 EXCEPT !.pc = retpc]
        ELSE quit_sequence(s0, retpc, io)

(***************************************************************************)
(* spawn_main, handle_suspend                                              *)
(***************************************************************************)
\* A variant of spawn_main that resumes a session with the start time it has.
spawn_main_stale(s, io) ==
    IF ~io.gi THEN Fail(s, "gi")
    ELSE IF ~io.spawn THEN Fail(s, "spawn")
    ELSE [s EXCEPT !.main = "running",
                   !.orphans.main = IF Live(s.main) THEN Bump(@) ELSE @,
                   !.step.fired = "spawn_main"]

\* spawn_main (feature miyoo) and the assignment of its result to self.main:
\* a saved game session is resumed with a fresh start time, else the
\* launcher is started.  The handle replaced is dropped, not killed.
spawn_main(s, io) ==
    LET s1 == IF is_ingame(s) THEN [s EXCEPT !.game_info.start_time = s.now]
              ELSE s
    IN  IF ~io.gi THEN Fail(s, "gi")
        ELSE IF ~io.spawn THEN Fail(s1, "spawn")
        ELSE [s1 EXCEPT !.main = "running",
                        !.orphans.main = IF Live(s.main) THEN Bump(@) ELSE @,
                        !.step.fired = "spawn_main"]

\* AlliumD::new on a later start of the device, the clock reading c: the
\* files are as the last run left them, nothing else is; the record is
\* loaded (which may set the clock) and the foreground process is spawned.
new(s, c, lio, io) ==
    LET s0 == [s EXCEPT !.now = c, !.pc = "start", !.ret = "loop",
                        !.term = NoTerm, !.main = "reaped", !.menu = "none",
                        !.orphans = [main |-> 0, menu |-> 0],
                        !.keys = {}, !.held = {},
                        !.is_menu_pressed_alone = FALSE,
                        !.pressed_menu = "short", !.is_terminating = FALSE,
                        !.battery = [percentage |-> 100, charging |-> FALSE],
                        !.obs = [NoObs EXCEPT !.saved = s.obs.saved]]
        s1 == load_state(s0, lio)
        s2 == spawn_main(s1, io)
    IN  IF Failed(s1) THEN s1
        ELSE IF Failed(s2) THEN s2
        ELSE [s2 EXCEPT !.obs.boot = s2.now]

\* AlliumD::handle_suspend up to its loop
handle_suspend(s, io) ==
    IF ~io.platform THEN Fail(s, "platform")
    ELSE [s EXCEPT !.obs.hw = "suspended", !.obs.asleep = NoAsleep,
                   !.main = Signal(s.main, "SIGSTOP"), !.pc = "suspended",
                   !.step.fired = "suspend"]

(***************************************************************************)
(* handle_key_event                                                        *)
(***************************************************************************)
Kinds == {"Pressed", "Released", "Autorepeat"}

Is(e, kinds, ks) == e.kind \in kinds /\ e.key \in ks

\* A variant of show_hotkeys that leaves is_menu_pressed_alone set.
show_hotkeys_again(s, io) ==
    LET s1 == [s EXCEPT !.step.fired = "show_hotkeys",
                        !.obs.hold.shows = Bump(@)]
    IN  IF ~io.cmd THEN Fail(s1, "cmd") ELSE s1

\* A variant of show_hotkeys that does not continue the foreground process.
show_hotkeys_stopped(s, io) ==
    LET s1 == [s EXCEPT !.is_menu_pressed_alone = FALSE,
                        !.main = Signal(s.main, "SIGSTOP"),
                        !.menu = Signal(s.menu, "SIGSTOP"),
                        !.step.fired = "show_hotkeys",
                        !.obs.hold.shows = Bump(@)]
    IN  IF ~io.cmd THEN Fail(s1, "cmd")
        ELSE [s1 EXCEPT !.menu = Signal(s1.menu, "SIGCONT")]

\* The long press of Menu: the foreground process and the menu overlay are
\* stopped while show-hotkeys runs.
show_hotkeys(s, io) ==
    LET s1 == [s EXCEPT !.is_menu_pressed_alone = FALSE,
                        !.main = Signal(s.main, "SIGSTOP"),
                        !.menu = Signal(s.menu, "SIGSTOP"),
                        !.step.fired = "show_hotkeys",
                        !.obs.hold.shows = Bump(@)]
    IN  IF ~io.cmd THEN Fail(s1, "cmd")
        ELSE [s1 EXCEPT !.main = Signal(s1.main, "SIGCONT"),
                        !.menu = Signal(s1.menu, "SIGCONT")]

\* Menu + Power released: the screenshot utility
screenshot(s, io) ==
    IF ~io.gi THEN Fail(s, "gi")
    ELSE IF ~io.cmd THEN Fail([s EXCEPT !.step.fired = "screenshot"], "cmd")
    ELSE [s EXCEPT !.step.fired = "screenshot"]

\* The keys other than Menu are all up (self.keys.iter().all(...)).
OnlyMenu(ks) == ks \ {"Menu"} = {}

\* A variant of toggle_menu that spawns an overlay whether a handle is held
\* or not.
toggle_menu_again(s, io) ==
    IF s.is_menu_pressed_alone /\ is_ingame(s) /\ s.game_info.has_menu
    THEN [s EXCEPT !.menu = "running",
                   !.orphans.menu = IF Live(s.menu) THEN Bump(@) ELSE @,
                   !.step.fired = "menu_spawn",
                   !.is_menu_pressed_alone = FALSE]
    ELSE [s EXCEPT !.is_menu_pressed_alone = FALSE]

\* Menu released: the menu overlay is terminated when a handle is held, and
\* spawned when none is and the game's core has a menu.
toggle_menu(s, io) ==
    IF ~s.is_menu_pressed_alone THEN s
    ELSE IF is_ingame(s) /\ OnlyMenu(s.keys)
    THEN IF ~io.gi THEN Fail(s, "gi")
         ELSE IF s.menu # "none"
         THEN terminate_begin([s EXCEPT !.step.fired = "menu_terminate"],
                              "menu", "toggle")
         ELSE IF s.game_info.has_menu
         THEN IF ~io.spawn
              THEN Fail([s EXCEPT !.step.fired = "menu_spawn"], "spawn")
              ELSE [s EXCEPT !.menu = "running",
                             !.orphans.menu = IF Live(s.menu) THEN Bump(@) ELSE @,
                             !.step.fired = "menu_spawn",
                             !.is_menu_pressed_alone = FALSE]
         ELSE [s EXCEPT !.is_menu_pressed_alone = FALSE]
    ELSE [s EXCEPT !.is_menu_pressed_alone = FALSE]

\* The configured action of the Power release or the lid close
power_action(s, action, trigger, io) ==
    CASE action = "Suspend" -> handle_suspend(s, io)
      [] action = "Shutdown" -> handle_quit(s, trigger, "loop", io)
      [] OTHER -> s

\* The global hotkeys: self.keys[Key::Menu] holds.
hotkeys(s, e, io) ==
    CASE Is(e, {"Autorepeat"}, {"Menu"}) ->
            IF s.is_menu_pressed_alone /\ s.pressed_menu = "long"
            THEN show_hotkeys(s, io) ELSE s
      [] Is(e, {"Pressed", "Autorepeat"}, {"Up", "VolUp"}) ->
            add_brightness(s, 5, io)
      [] Is(e, {"Pressed", "Autorepeat"}, {"Down", "VolDown"}) ->
            add_brightness(s, -5, io)
      [] Is(e, {"Pressed", "Autorepeat"}, {"Left"}) -> add_volume(s, -1, io)
      [] Is(e, {"Pressed", "Autorepeat"}, {"Right"}) -> add_volume(s, 1, io)
      [] Is(e, {"Released"}, {"Power"}) -> screenshot(s, io)
      [] OTHER -> s

\* The keys without the modifier: self.keys[Key::Menu] does not hold.
plain_keys(s, e, io) ==
    CASE Is(e, {"Pressed", "Autorepeat"}, {"VolDown"}) -> add_volume(s, -1, io)
      [] Is(e, {"Pressed", "Autorepeat"}, {"VolUp"}) -> add_volume(s, 1, io)
      [] Is(e, {"Autorepeat"}, {"Power"}) ->
            handle_quit(s, "power_hold", "loop", io)
      [] Is(e, {"Released"}, {"Power"}) ->
            power_action(s, s.power_settings.power_button_action,
                         "power_release", io)
      [] Is(e, {"Pressed"}, {"LidClose"}) ->
            power_action(s, s.power_settings.lid_close_action, "lid_close", io)
      [] Is(e, {"Released"}, {"Menu"}) -> toggle_menu(s, io)
      [] OTHER -> s

\* A variant of track_menu in which the press of another key leaves
\* is_menu_pressed_alone as it is.
track_menu_sticky(s, e) ==
    IF e.kind # "Pressed" THEN s
    ELSE IF e.key = "Menu"
    THEN [s EXCEPT !.is_menu_pressed_alone = TRUE, !.pressed_menu = "short"]
    ELSE [s EXCEPT !.obs.hold.other = @ \/ "Menu" \in s.keys]

\* The first match of handle_key_event: the Menu key's alone flag and press
\* time.  (Observed: a press of another key while self.keys has Menu marks
\* the hold.)
track_menu(s, e) ==
    IF e.kind # "Pressed" THEN s
    ELSE IF e.key = "Menu"
    THEN [s EXCEPT !.is_menu_pressed_alone = TRUE, !.pressed_menu = "short"]
    ELSE [s EXCEPT !.is_menu_pressed_alone = FALSE,
                   !.obs.hold.other = @ \/ "Menu" \in s.keys]

\* The second match of handle_key_event: self.keys.  (Observed: the hold of
\* Menu ends with the release of Menu.)
track_keys(s, e) ==
    CASE e.kind = "Pressed" -> [s EXCEPT !.keys = @ \cup {e.key}]
      [] e.kind = "Released" ->
            IF e.key = "Menu"
            THEN [s EXCEPT !.keys = @ \ {e.key}, !.obs.hold = NoHold,
                           !.step.hold = s.obs.hold]
            ELSE [s EXCEPT !.keys = @ \ {e.key}]
      [] OTHER -> s

\* A variant of handle_key_event that does not look at the modifier.
handle_key_event_plain(s, e, io) ==
    plain_keys(track_keys(track_menu([s EXCEPT !.pc = "loop", !.step.event = e],
                                     e), e), e, io)

\* AlliumD::handle_key_event, up to its first await if it has one; the main
\* loop goes on with its next iteration when it returns.
handle_key_event(s, e, io) ==
    LET s1 == track_keys(track_menu([s EXCEPT !.pc = "loop", !.step.event = e],
                                    e), e)
    IN  IF "Menu" \in s1.keys THEN hotkeys(s1, e, io)
        ELSE plain_keys(s1, e, io)

\* The events of the keys K the hardware can deliver next: a key is pressed
\* when it is up, and repeats or is released when it is down.
Events(K) ==
    { e \in [kind : Kinds, key : K] :
        IF e.kind = "Pressed"
        THEN e.key \notin held /\ Cardinality(held) < MaxHeld
        ELSE e.key \in held }

\* The event e leaves the platform's poll().
Deliver(s, e) ==
    CASE e.kind = "Pressed" -> [s EXCEPT !.held = @ \cup {e.key}]
      [] e.kind = "Released" -> [s EXCEPT !.held = @ \ {e.key}]
      [] OTHER -> s

\* The event e is read by the poll() of a nested wait (handle_suspend,
\* handle_charging).
Polled(s, e) == [s EXCEPT !.step.polled = e]

(***************************************************************************)
(* run_event_loop                                                          *)
(***************************************************************************)
\* A variant of battery_low that does not look at the charger.
battery_low_charging(b) == b.percentage <= BATTERY_SHUTDOWN_THRESHOLD

\* The battery check's condition (run_event_loop)
battery_low(b) == b.percentage <= BATTERY_SHUTDOWN_THRESHOLD /\ ~b.charging

\* handle_charging up to its loop: the foreground process is stopped, the
\* charging screen is announced and shown, the platform suspended.
handle_charging(s, io) ==
    LET s1 == [s EXCEPT !.main = Signal(s.main, "SIGSTOP")]
    IN  IF ~io.cmd THEN Fail(s1, "cmd")
        ELSE IF ~io.platform THEN Fail(s1, "platform")
        ELSE [s1 EXCEPT !.obs.hw = "suspended", !.pc = "charging"]

\* run_event_loop before its loop: the volume and the brightness are set,
\* the battery is read once, and a charging battery is waited for.
run_start(s, reading, io) ==
    IF ~io.platform THEN Fail(s, "platform")
    ELSE IF ~io.battery THEN Fail(s, "battery")
    ELSE LET s1 == [s EXCEPT !.battery = reading, !.pc = "loop"]
         IN  IF reading.charging THEN handle_charging(s1, io) ELSE s1

\* A variant of charging_key that any released key ends.
charging_key_any(s, e, io) ==
    IF e.kind = "Released"
    THEN LET s1 == [s EXCEPT !.main = Signal(s.main, "SIGCONT"),
                             !.step.fired = "charged"]
         IN  IF ~io.platform THEN Fail(s1, "platform")
             ELSE [s1 EXCEPT !.obs.hw = "awake", !.pc = "loop"]
    ELSE s

\* handle_charging's loop, a key event: only a release of Power ends it.
charging_key(s, e, io) ==
    IF Is(e, {"Released"}, {"Power"})
    THEN LET s1 == [s EXCEPT !.main = Signal(s.main, "SIGCONT"),
                             !.step.fired = "charged"]
         IN  IF ~io.platform THEN Fail(s1, "platform")
             ELSE [s1 EXCEPT !.obs.hw = "awake", !.pc = "loop"]
    ELSE s

\* handle_charging's loop, the one-second tick: its own battery is read, and
\* platform.shutdown() is called when it no longer charges.
charging_tick(s, reading, io) ==
    IF ~io.battery THEN Fail(s, "battery")
    ELSE IF ~reading.charging
    THEN LET s1 == [s EXCEPT !.step.tick = "unplugged",
                             !.step.fired = "charging_shutdown"]
         IN  IF ~io.platform THEN Fail(s1, "platform") ELSE s1
    ELSE [s EXCEPT !.step.tick = "charging"]

\* The head of the main loop: an exited menu overlay is forgotten, and when
\* BATTERY_UPDATE_INTERVAL has passed (due) the battery is read and checked.
loop_head(s, due, reading, io) ==
    LET s1 == IF Exited(s.menu) THEN [s EXCEPT !.menu = "none"] ELSE s
        s2 == [s1 EXCEPT !.battery = IF io.battery THEN reading ELSE @,
                         !.step.checked = TRUE]
    IN  IF Exited(s.menu) /\ ~io.cmd THEN Fail(s1, "cmd")
        ELSE IF ~due THEN [s1 EXCEPT !.pc = "select"]
        ELSE IF battery_low(s2.battery)
        THEN handle_quit(s2, "battery", "select", io)
        ELSE [s2 EXCEPT !.pc = "select"]

\* A variant of idle_timeout that does not look at the charger.
idle_timeout_charging(s, io) ==
    handle_quit([s EXCEPT !.step.fired = "idle"], "idle", "loop", io)

\* select!: the auto-sleep timer
idle_timeout(s, io) ==
    LET s0 == [s EXCEPT !.step.fired = "idle"]
    IN  IF ~s.power_settings.auto_sleep_when_charging /\ s.battery.charging
        THEN [s0 EXCEPT !.pc = "loop"]
        ELSE handle_quit(s0, "idle", "loop", io)

\* A variant of main_exited that does not look at is_terminating.
main_exited_always(s, io) ==
    LET s0 == [s EXCEPT !.main = "reaped", !.pc = "loop", !.step.waited = TRUE]
        s1 == update_play_time(s0, io)
    IN  IF Failed(s1) THEN s1
        ELSE spawn_main([s1 EXCEPT !.game_info = NoGame], io)

\* select!: self.main.wait() returned
main_exited(s, io) ==
    LET s0 == [s EXCEPT !.main = "reaped", !.pc = "loop", !.step.waited = TRUE]
        s1 == update_play_time(s0, io)
    IN  IF s.is_terminating THEN s0
        ELSE IF Failed(s1) THEN s1
        ELSE spawn_main([s1 EXCEPT !.game_info = NoGame], io)

\* handle_suspend's loop, a key event: a release of Power or LidClose wakes;
\* after any other event the loop goes round and select! begins a new
\* sleep(IDLE_TIMEOUT).
suspend_key(s, e, io) ==
    IF Is(e, {"Released"}, {"Power", "LidClose"})
    THEN LET s1 == [s EXCEPT !.main = Signal(s.main, "SIGCONT")]
         IN  IF ~io.platform THEN Fail(s1, "platform")
             ELSE [s1 EXCEPT !.obs.hw = "awake", !.pc = "loop"]
    ELSE [s EXCEPT !.obs.asleep.sleep = 0]

\* A variant of suspend_timeout that shuts down as it is, the foreground
\* process stopped and the platform suspended.
suspend_timeout_asleep(s, io) == handle_quit(s, "suspend_timeout", "loop", io)

\* handle_suspend's loop, IDLE_TIMEOUT: wake up, then shut down.
suspend_timeout(s, io) ==
    LET s1 == [s EXCEPT !.main = Signal(s.main, "SIGCONT")]
    IN  IF ~io.platform THEN Fail(s1, "platform")
        ELSE handle_quit([s1 EXCEPT !.obs.hw = "awake"], "suspend_timeout",
                         "loop", io)

\* A variant of wait_over without the timeout: child.wait() alone.
wait_over_untimed(s) == Exited(Child(s, s.term.target))

\* timeout(5 s, child.wait()) is over: the child has exited, or the five
\* seconds have passed.
wait_over(s) == Exited(Child(s, s.term.target)) \/ s.term.expired

\* terminate() returns, and the code after the call runs up to its next await.
after_terminate(s, io) ==
    LET cont == s.term.cont
        s1 == terminate_end(s)
    IN  CASE cont = "toggle" ->
                [s1 EXCEPT !.is_menu_pressed_alone = FALSE, !.pc = "loop"]
          [] cont = "quit_main" -> terminate_begin(s1, "main", "quit_flag")
          [] OTHER -> quit_finish(s1, io)

(***************************************************************************)
(* The actions.  K is the set of keys the user touches, R the set of       *)
(* readings the battery gives.                                             *)
(***************************************************************************)
RunStart(R) ==
    /\ pc = "start"
    /\ \E reading \in R, io \in IOsOf({"platform", "battery", "cmd"}) :
          Set(run_start(Begin(S), reading, io))

ChargingKey(K) ==
    /\ pc = "charging"
    /\ \E e \in Events(K), io \in IOsOf({"platform"}) :
          Set(charging_key(Polled(Deliver(Begin(S), e), e), e, io))

ChargingTick(R) ==
    /\ pc = "charging"
    /\ \E reading \in R, io \in IOsOf({"platform", "battery"}) :
          Set(charging_tick(Begin(S), reading, io))

\* The power-offs of handle_charging are counted where they are followed.
CountOff(s) ==
    IF s.step.fired = "charging_shutdown"
    THEN [s EXCEPT !.obs.charge_offs = Bump(@)] ELSE s

\* ChargingTick, its power-offs counted.
ChargingTickCounted(R) ==
    /\ pc = "charging"
    /\ \E reading \in R, io \in IOsOf({"platform", "battery"}) :
          Set(CountOff(charging_tick(Begin(S), reading, io)))

\* The head of the main loop before BATTERY_UPDATE_INTERVAL has passed, and
\* once it has.
LoopHead(R) ==
    /\ pc = "loop"
    /\ \/ \E io \in IOsOf({"cmd"}) :
             Set(loop_head(Begin(S), FALSE, battery, io))
       \/ \E reading \in R, io \in IOsOf({"battery", "cmd"} \cup QuitCalls) :
             Set(loop_head(Begin(S), TRUE, reading, io))

KeyEvent(K) ==
    /\ pc = "select"
    /\ \E e \in Events(K) : \E io \in IOsOf(KeyCalls(e)) :
          Set(handle_key_event(Deliver(Begin(S), e), e, io))

IdleTimeout ==
    /\ pc = "select"
    /\ power_settings.auto_sleep_duration_minutes # 0
    /\ \E io \in IOsOf(QuitCalls) : Set(idle_timeout(Begin(S), io))

\* KeyEvent, its events counted, up to MaxEvents of them.
KeyEventCounted(K) ==
    /\ pc = "select"
    /\ obs.events < MaxEvents
    /\ \E e \in Events(K) : \E io \in IOsOf(KeyCalls(e)) :
          Set([handle_key_event(Deliver(Begin(S), e), e, io) EXCEPT
                   !.obs.events = @ + 1])

\* KeyEvent, where the use of a hold of Menu is followed: a hotkey that
\* changes the brightness or the volume or takes a screenshot marks the hold.
KeyEventMarked(K) ==
    /\ pc = "select"
    /\ \E e \in Events(K) : \E io \in IOsOf(KeyCalls(e)) :
          LET s == handle_key_event(Deliver(Begin(S), e), e, io)
          IN  Set(IF /\ "Menu" \in s.keys
                     /\ s.step.fired \in {"brightness", "volume", "screenshot"}
                  THEN [s EXCEPT !.obs.hold.used = TRUE] ELSE s)

MainExited ==
    /\ pc = "select"
    /\ Exited(main)
    /\ \E io \in IOsOf({"gi", "db", "spawn"}) : Set(main_exited(Begin(S), io))

\* SIGINT or SIGTERM reaches the daemon.
OsSignal ==
    /\ pc = "select"
    /\ \E io \in IOsOf(QuitCalls) :
          Set(handle_quit(Begin(S), "signal", "loop", io))

SuspendKey(K) ==
    /\ pc = "suspended"
    /\ \E e \in Events(K), io \in IOsOf({"platform"}) :
          Set(suspend_key(Polled(Deliver(Begin(S), e), e), e, io))

SuspendTimeout ==
    /\ pc = "suspended"
    /\ \E io \in IOsOf({"platform"} \cup QuitCalls) : Set(suspend_timeout(Begin(S), io))

\* SuspendTimeout where the time is followed: the sleep(IDLE_TIMEOUT) of the
\* current select! has run out.
SuspendTimeoutDue ==
    /\ obs.asleep.sleep >= IdleTicks
    /\ SuspendTimeout

\* The daemon goes on when timeout(5 s, child.wait()) is over.
AfterTerminate ==
    /\ pc = "terminate"
    /\ wait_over(S)
    /\ \E io \in IOsOf(FinishCalls) : Set(after_terminate(Begin(S), io))

(***************************************************************************)
(* The surroundings: the children, the timers, the clock, the launcher.    *)
(* They are followed until the daemon exits (pc = "failed").               *)
(***************************************************************************)
Env(s) == [s EXCEPT !.step = NoStep]

\* The foreground process exits (a running process can at any time).
MainExits ==
    /\ pc # "failed"
    /\ main = "running"
    /\ Set([Env(S) EXCEPT !.main = "zombie"])

MenuExits ==
    /\ pc # "failed"
    /\ menu = "running"
    /\ Set([Env(S) EXCEPT !.menu = "zombie"])

\* A child is stopped from outside the daemon (a SIGSTOP of another process):
\* it neither runs nor exits until it is continued or killed.
MainStops ==
    /\ pc # "failed"
    /\ main = "running"
    /\ Set([Env(S) EXCEPT !.main = "stopped"])

MenuStops ==
    /\ pc # "failed"
    /\ menu = "running"
    /\ Set([Env(S) EXCEPT !.menu = "stopped"])

\* The five seconds of terminate() pass with the child still there.
GraceElapses ==
    /\ pc = "terminate"
    /\ ~term.expired
    /\ ~Exited(Child(S, term.target))
    /\ Set([Env(S) EXCEPT !.term.expired = TRUE])

\* LONG_PRESS_DURATION passes since Menu was pressed.
LongPressElapses ==
    /\ pc # "failed"
    /\ "Menu" \in keys
    /\ pressed_menu = "short"
    /\ Set([Env(S) EXCEPT !.pressed_menu = "long"])

\* A tick of time passes while the daemon waits in handle_suspend.
SuspendTick ==
    /\ pc = "suspended"
    /\ obs.asleep.entry < IdleTicks
    /\ Set([Env(S) EXCEPT !.obs.asleep.entry = Min(@ + 1, IdleTicks),
                           !.obs.asleep.sleep = Min(@ + 1, IdleTicks)])

\* TickHours pass.
Tick ==
    /\ pc # "failed"
    /\ now + TickHours <= MaxClock
    /\ Set([Env(S) EXCEPT !.now = now + TickHours])

\* The device has powered off after a shutdown and is started again, at
\* once or TickHours later, its clock kept by the RTC or lost.
Restart ==
    /\ pc \in {"loop", "select"}
    /\ obs.poweroffs >= 1
    /\ \E off \in {0, TickHours}, lost \in BOOLEAN, lio \in LoadIOs,
          io \in IOsOf({"gi", "spawn"}) :
          /\ now + off <= MaxClock
          /\ Set(new(Begin(S), IF lost THEN 0 ELSE now + off, lio, io))

\* The launcher starts a game: it writes the session and becomes the game.
StartGame ==
    /\ pc # "failed"
    /\ main = "running"
    /\ game_info = NoGame
    /\ \E m \in BOOLEAN :
          Set([Env(S) EXCEPT !.game_info = [has_menu |-> m, start_time |-> now]])

(***************************************************************************)
(* The daemon from its construction (AlliumD::new) on.                     *)
(***************************************************************************)
PowerSettings(power, lid, minutes, charging) ==
    [power_button_action |-> power, lid_close_action |-> lid,
     auto_sleep_duration_minutes |-> minutes,
     auto_sleep_when_charging |-> charging]

\* A record saved by an earlier run.
SavedFile == to_string([time |-> 1, volume |-> 10, brightness |-> 50])

\* The daemon as AlliumD::new leaves it, with the state st it loaded.
Started(st, f, c, g, ps) ==
    /\ state = st
    /\ file = f
    /\ now = c
    /\ pc = "start"
    /\ ret = "loop"
    /\ term = NoTerm
    /\ main = "running"
    /\ menu = "none"
    /\ orphans = [main |-> 0, menu |-> 0]
    /\ keys = {}
    /\ is_menu_pressed_alone = FALSE
    /\ pressed_menu = "short"
    /\ is_terminating = FALSE
    /\ power_settings = ps
    /\ battery = [percentage |-> 100, charging |-> FALSE]
    /\ game_info = IF g = NoGame THEN NoGame ELSE [g EXCEPT !.start_time = c]
    /\ held = {}
    /\ obs = NoObs
    /\ step = NoStep

\* AlliumD::new: the record in file f is loaded at clock c, the foreground
\* process is spawned (a saved session g is resumed with a fresh start time).
Constructed(f, c, g, ps) ==
    LET l == Load(f, c, TRUE, TRUE, TRUE)
    IN  Started(l.state, l.file, l.clock, g, ps)

Games == {NoGame} \cup [has_menu : BOOLEAN, start_time : {0}]

\* The daemon's steps, with the keys K and the battery readings R, and the
\* steps of its children and timers.
Daemon(K, R) ==
    \/ RunStart(R)
    \/ ChargingKey(K)
    \/ ChargingTick(R)
    \/ LoopHead(R)
    \/ KeyEvent(K)
    \/ IdleTimeout
    \/ MainExited
    \/ OsSignal
    \/ SuspendKey(K)
    \/ SuspendTimeout
    \/ AfterTerminate
    \/ MainExits
    \/ MenuExits
    \/ GraceElapses
    \/ LongPressElapses
    \/ StartGame

(***************************************************************************)
(* Spec: the power controller and the process supervisor.  The user has    *)
(* the Menu key, the power button and the lid; the battery reads at the    *)
(* threshold or just above it, charging or not.                            *)
(***************************************************************************)
PowerKeys == {"Menu", "Power", "LidClose"}

PowerReadings ==
    { [percentage |-> BATTERY_SHUTDOWN_THRESHOLD, charging |-> FALSE],
      [percentage |-> BATTERY_SHUTDOWN_THRESHOLD, charging |-> TRUE],
      [percentage |-> BATTERY_SHUTDOWN_THRESHOLD + 1, charging |-> FALSE] }

SomeSettings ==
    { PowerSettings("Suspend", "Shutdown", 5, FALSE),
      PowerSettings("Shutdown", "Suspend", 0, TRUE),
      PowerSettings("Nothing", "Nothing", 5, TRUE) }

Init ==
    \E g \in Games, ps \in SomeSettings : Constructed(SavedFile, 0, g, ps)

Next == Daemon(PowerKeys, PowerReadings)

Spec == Init /\ [][Next]_vars

(***************************************************************************)
(* SpecAdjust: the volume and the brightness.  The user has Menu and the   *)
(* two volume keys (volume without Menu, brightness with it); the battery  *)
(* is healthy, the children live on and nothing shuts the daemon down.     *)
(***************************************************************************)
AdjustKeys == {"Menu", "VolUp", "VolDown"}

Healthy == { [percentage |-> 100, charging |-> FALSE] }

Unattended == PowerSettings("Nothing", "Nothing", 0, FALSE)

\* A record whose brightness is no multiple of the brightness step.
OddFile == to_string([time |-> 0, volume |-> 19, brightness |-> 98])

InitAdjust ==
    \E f \in {SavedFile, OddFile} : Constructed(f, 0, NoGame, Unattended)

NextAdjust ==
    \/ RunStart(Healthy)
    \/ LoopHead(Healthy)
    \/ KeyEvent(AdjustKeys)
    \/ LongPressElapses

SpecAdjust == InitAdjust /\ [][NextAdjust]_vars

(***************************************************************************)
(* SpecPlay: the play time.  The clock ticks while a game is played; the    *)
(* session ends when the game exits or when a signal shuts the daemon      *)
(* down.                                                                   *)
(***************************************************************************)
InitPlay ==
    \E f \in {Absent, SavedFile}, g \in Games : Constructed(f, 0, g, Unattended)

NextPlay ==
    \/ RunStart(Healthy)
    \/ LoopHead(Healthy)
    \/ MainExited
    \/ OsSignal
    \/ AfterTerminate
    \/ MainExits
    \/ GraceElapses
    \/ Tick
    \/ StartGame

SpecPlay == InitPlay /\ [][NextPlay]_vars

(***************************************************************************)
(* SpecPersist: the state record.  Any state the record's types allow is   *)
(* saved and loaded, over and again, with the I/O failing or not, the      *)
(* clock going on and the RTC losing the time.                             *)
(***************************************************************************)
Volumes == {(0 - I32_MAX) - 1, -1, 0, VOLUME_MAX, I32_MAX}

Brightnesses == {0, DefaultBrightness, U8_MAX}

States == [time : {0, MaxClock}, volume : Volumes, brightness : Brightnesses]

\* A record without a timestamp, as an older version wrote it.
NoTimeFile == << "{", "volume", "5", "brightness", "7", "0", "}" >>

\* A record whose brightness does not fit a u8.
BadBrightnessFile ==
    << "{", "time", "0", "volume", "5", "brightness", "2", "5", "6", "}" >>

\* What the daemon may find on storage when it starts.
Records == {Absent, NoTimeFile, BadBrightnessFile}

InitPersist ==
    \E s \in States, f \in Records : Started(s, f, 0, NoGame, Unattended)

SaveState ==
    /\ pc = "start"
    /\ \E io \in IOsOf({"save"}) :
          Set([save_state(Begin(S), io) EXCEPT !.pc = "start", !.step.fired = "save"])

LoadState ==
    /\ pc = "start"
    /\ \E io \in LoadIOs : Set([load_state(Begin(S), io) EXCEPT !.pc = "start"])

\* The daemon crashes in save: just after File::create, in the middle of
\* write_all, or after it.
SaveCrash ==
    /\ pc = "start"
    /\ \E k \in {0, 3, Len(to_string(state))} : Set(save_crashed(Begin(S), k))

\* The RTC does not keep the time over a power-off: the clock starts again.
ClockLost ==
    /\ pc = "start"
    /\ now > 0
    /\ Set([Env(S) EXCEPT !.now = 0])

\* The state in memory becomes another one (adjustments, another run).
SetState ==
    /\ pc = "start"
    /\ \E s \in States : Set([Env(S) EXCEPT !.state = s])

NextPersist ==
    \/ SaveState
    \/ SaveCrash
    \/ LoadState
    \/ SetState
    \/ ClockLost
    \/ Tick

SpecPersist == InitPersist /\ [][NextPersist]_vars

(***************************************************************************)
(* SpecCharge: the daemon started on the charger.  The user has the power  *)
(* button; the charger is pulled or stays, the battery is low or not; the  *)
(* power-offs of the charging block are counted.                           *)
(***************************************************************************)
ChargeKeys == {"Power"}

ChargeReadings ==
    { [percentage |-> BATTERY_SHUTDOWN_THRESHOLD, charging |-> FALSE],
      [percentage |-> 80, charging |-> TRUE],
      [percentage |-> 80, charging |-> FALSE] }

InitCharge ==
    \E g \in Games, ps \in SomeSettings : Constructed(SavedFile, 0, g, ps)

NextCharge ==
    \/ RunStart({r \in ChargeReadings : r.charging})
    \/ ChargingKey(ChargeKeys)
    \/ ChargingTickCounted(ChargeReadings)
    \/ LoopHead(ChargeReadings)
    \/ KeyEvent(ChargeKeys)
    \/ IdleTimeout
    \/ MainExited
    \/ OsSignal
    \/ SuspendKey(ChargeKeys)
    \/ SuspendTimeout
    \/ AfterTerminate
    \/ MainExits
    \/ GraceElapses
    \/ Tick

SpecCharge == InitCharge /\ [][NextCharge]_vars

(***************************************************************************)
(* SpecTerminate: terminate() and the children.  A game is played, the     *)
(* menu overlay is toggled, signals shut the daemon down; a child exits,   *)
(* is stopped, or does neither.  Time passes (the five seconds of the      *)
(* timeout end) and the runtime resumes the daemon's task when what it     *)
(* awaits is ready: weak fairness of GraceElapses and AfterTerminate.      *)
(***************************************************************************)
TerminateKeys == {"Menu"}

InitTerminate == \E g \in Games : Constructed(SavedFile, 0, g, Unattended)

NextTerminate ==
    \/ RunStart(Healthy)
    \/ LoopHead(Healthy)
    \/ KeyEvent(TerminateKeys)
    \/ MainExited
    \/ OsSignal
    \/ AfterTerminate
    \/ MainExits
    \/ MenuExits
    \/ MainStops
    \/ MenuStops
    \/ GraceElapses
    \/ StartGame

SpecTerminate ==
    /\ InitTerminate
    /\ [][NextTerminate]_vars
    /\ WF_vars(GraceElapses)
    /\ WF_vars(AfterTerminate)

(***************************************************************************)
(* SpecIdle: the main loop with a battery that stays low and does not      *)
(* charge.  Keys, signals and the exit of the foreground process may       *)
(* happen or not.  What the daemon can do it does (weak fairness of its    *)
(* steps and of its timers), and as long as the loop goes round, time      *)
(* passes and BATTERY_UPDATE_INTERVAL ends: a loop head reached again and  *)
(* again checks the battery again and again.                               *)
(***************************************************************************)
IdleKeys == {"Menu"}

LowReadings ==
    { [percentage |-> BATTERY_SHUTDOWN_THRESHOLD, charging |-> FALSE],
      [percentage |-> BATTERY_SHUTDOWN_THRESHOLD - 2, charging |-> FALSE] }

IdleSettings == {Unattended, PowerSettings("Nothing", "Nothing", 5, FALSE)}

InitIdle ==
    \E g \in Games, ps \in IdleSettings : Constructed(SavedFile, 0, g, ps)

NextIdle ==
    \/ RunStart(LowReadings)
    \/ LoopHead(LowReadings)
    \/ KeyEvent(IdleKeys)
    \/ IdleTimeout
    \/ MainExited
    \/ OsSignal
    \/ AfterTerminate
    \/ MainExits
    \/ GraceElapses

SpecIdle ==
    /\ InitIdle
    /\ [][NextIdle]_vars
    /\ WF_vars(RunStart(LowReadings))
    /\ WF_vars(LoopHead(LowReadings))
    /\ WF_vars(IdleTimeout)
    /\ WF_vars(MainExited)
    /\ WF_vars(AfterTerminate)
    /\ WF_vars(GraceElapses)
    /\ ([]<>(pc = "loop") => []<>step.checked)

(***************************************************************************)
(* SpecScenario: a day with the device.  The daemon starts from the saved  *)
(* record with the battery at 80 percent, not charging; the user presses   *)
(* the volume-up key; hours pass, and after them the battery reads 3       *)
(* percent.  The timer of terminate() and the daemon's resumption after it *)
(* are fair.                                                               *)
(***************************************************************************)
ScenarioKeys == {"VolUp"}

\* The state the daemon loads from SavedFile.
Saved == from_str(SavedFile, 0).state

Full == [percentage |-> 80, charging |-> FALSE]

Low == [percentage |-> 3, charging |-> FALSE]

\* What the battery reads: Full until time has passed, Low afterwards.
ScenarioReadings == IF now > Saved.time THEN {Low} ELSE {Full}

InitScenario == Constructed(SavedFile, 0, NoGame, Unattended)

NextScenario ==
    \/ RunStart(ScenarioReadings)
    \/ LoopHead(ScenarioReadings)
    \/ KeyEvent(ScenarioKeys)
    \/ MainExited
    \/ AfterTerminate
    \/ MainExits
    \/ GraceElapses
    \/ Tick

SpecScenario ==
    /\ InitScenario
    /\ [][NextScenario]_vars
    /\ WF_vars(GraceElapses)
    /\ WF_vars(AfterTerminate)

(***************************************************************************)
(* SpecSuspend: the time spent suspended.  The power button suspends; the  *)
(* user has the power button and the lid; time passes in ticks while the   *)
(* daemon waits in handle_suspend, and its timeout fires when the sleep of *)
(* the current select! has run out.                                        *)
(***************************************************************************)
SuspendKeys == {"Power", "LidClose"}

InitSuspend ==
    Constructed(SavedFile, 0, NoGame, PowerSettings("Suspend", "Nothing", 0, FALSE))

NextSuspend ==
    \/ RunStart(Healthy)
    \/ LoopHead(Healthy)
    \/ KeyEvent(SuspendKeys)
    \/ MainExited
    \/ SuspendKey(SuspendKeys)
    \/ SuspendTimeoutDue
    \/ SuspendTick
    \/ AfterTerminate
    \/ MainExits
    \/ GraceElapses

SpecSuspend == InitSuspend /\ [][NextSuspend]_vars

(***************************************************************************)
(* SpecRoute: the routing of the keys.  The user has Menu, the four        *)
(* directions, the two volume keys and the power button, whose release     *)
(* shuts the daemon down; the first MaxEvents key events are followed.     *)
(***************************************************************************)
RouteKeys == {"Menu", "Up", "Down", "Left", "Right", "VolUp", "VolDown", "Power"}

InitRoute ==
    Constructed(SavedFile, 0, NoGame, PowerSettings("Shutdown", "Nothing", 0, FALSE))

NextRoute ==
    \/ RunStart(Healthy)
    \/ LoopHead(Healthy)
    \/ KeyEventCounted(RouteKeys)
    \/ LongPressElapses
    \/ AfterTerminate
    \/ MainExits
    \/ GraceElapses

SpecRoute == InitRoute /\ [][NextRoute]_vars

(***************************************************************************)
(* SpecRange: the ranges of the saved state.  The daemon finds the record  *)
(* it has saved, or one with a volume and a brightness it would not have   *)
(* saved (edited, or written by another version); the user then adjusts    *)
(* the volume and the brightness.                                          *)
(***************************************************************************)
EditedFile == to_string([time |-> 0, volume |-> 25, brightness |-> 125])

InitRange ==
    \E f \in {SavedFile, EditedFile} : Constructed(f, 0, NoGame, Unattended)

NextRange ==
    \/ RunStart(Healthy)
    \/ LoopHead(Healthy)
    \/ KeyEventCounted(AdjustKeys)
    \/ LongPressElapses

SpecRange == InitRange /\ [][NextRange]_vars

(***************************************************************************)
(* SpecHold: the hold of Menu as a modifier.  A game is resumed; the user  *)
(* has Menu, the power button and the lid, none of which is configured to  *)
(* do anything; the hotkeys used during a hold of Menu are followed.       *)
(***************************************************************************)
NextHold ==
    \/ RunStart(Healthy)
    \/ LoopHead(Healthy)
    \/ KeyEventMarked(PowerKeys)
    \/ LongPressElapses
    \/ AfterTerminate
    \/ MainExits
    \/ MenuExits
    \/ GraceElapses

SpecHold == InitTerminate /\ [][NextHold]_vars

(***************************************************************************)
(* SpecRestart: the play time over restarts.  As SpecPlay, and the device  *)
(* is started again after a shutdown.                                      *)
(***************************************************************************)
NextRestart ==
    \/ RunStart(Healthy)
    \/ LoopHead(Healthy)
    \/ MainExited
    \/ OsSignal
    \/ AfterTerminate
    \/ MainExits
    \/ GraceElapses
    \/ Tick
    \/ StartGame
    \/ Restart

SpecRestart == InitPlay /\ [][NextRestart]_vars

(***************************************************************************)
(* The properties.                                                         *)
(***************************************************************************)
MenuReleased == [kind |-> "Released", key |-> "Menu"]

MenuRepeat == [kind |-> "Autorepeat", key |-> "Menu"]

MenuActions == {"show_hotkeys", "menu_spawn", "menu_terminate"}

\* C1: handle_quit is idempotent.  Whatever the triggers and their order, the
\* state record is saved at most once, terminate() of the foreground process
\* is called at most once and platform.shutdown() is called by handle_quit at
\* most once; a power-off has been preceded by exactly one save and one
\* terminate of the foreground process; and once is_terminating is set, a
\* step in which a trigger calls handle_quit again saves nothing, terminates
\* nothing, powers nothing off and leaves the state and the file as they are.
C1_QuitOnce ==
    /\ [](/\ obs.saves <= 1
          /\ obs.main_terms <= 1
          /\ obs.poweroffs <= 1
          /\ (obs.poweroffs = 1 => obs.saves = 1 /\ obs.main_terms = 1))
    /\ [][is_terminating /\ step'.trigger # "none"
            => /\ obs'.saves = obs.saves
               /\ obs'.main_terms = obs.main_terms
               /\ obs'.poweroffs = obs.poweroffs
               /\ state' = state
               /\ file' = file
               /\ is_terminating'
               /\ pc' \notin {"terminate", "failed"}]_vars

\* handle_quit has completed (the power-off was called) and a signal has
\* called it again.
C1_QuitAgain ==
    /\ is_terminating
    /\ step.trigger = "signal"
    /\ obs.saves = 1
    /\ obs.main_terms = 1
    /\ obs.poweroffs = 1

\* C2: in the main loop, a battery check calls handle_quit if and only if
\* the percentage the battery reports is at most BATTERY_SHUTDOWN_THRESHOLD
\* and it does not report charging; and the battery trigger comes from no
\* other place than a check.
C2_BatteryCheck ==
    /\ step.checked =>
          (step.trigger = "battery" <=>
              /\ battery.percentage <= BATTERY_SHUTDOWN_THRESHOLD
              /\ ~battery.charging)
    /\ step.trigger = "battery" => step.checked

\* A check has found the battery at the threshold and not charging, and
\* handle_quit is under way.
C2_LowBattery ==
    /\ step.checked
    /\ step.trigger = "battery"
    /\ battery.percentage = BATTERY_SHUTDOWN_THRESHOLD
    /\ pc = "terminate"

\* C3: from a volume within 0..20 and a brightness within 0..100, every
\* sequence of add_volume(+1/-1) and add_brightness(+5/-5) keeps them there;
\* each call leaves the value asked for, clamped to the range, and no call
\* fails for what it was asked (only the platform port can fail it).
C3_Clamped ==
    /\ [](/\ state.volume \in 0..VOLUME_MAX
          /\ state.brightness \in 0..BRIGHTNESS_MAX)
    /\ [][/\ step'.fired = "volume"
             => /\ step'.add \in {-1, 1}
                /\ state'.volume = Clamp(state.volume + step'.add, 0, VOLUME_MAX)
                /\ state'.brightness = state.brightness
                /\ step'.err \in {"none", "platform"}
          /\ step'.fired = "brightness"
             => /\ step'.add \in {-5, 5}
                /\ state'.brightness =
                      Clamp(state.brightness + step'.add, 0, BRIGHTNESS_MAX)
                /\ state'.volume = state.volume
                /\ step'.err \in {"none", "platform"}]_vars

\* add_brightness(5) was called at brightness 98, and has left 100.
C3_ClampedAtTop ==
    /\ step.fired = "brightness"
    /\ step.add = 5
    /\ step.was = BRIGHTNESS_MAX - 2
    /\ state.brightness = BRIGHTNESS_MAX
    /\ pc = "loop"

\* C4: when update_play_time runs with a game active and reads the session,
\* the play time is the time since the session's start; it is added to the
\* database only if it is at most 24 hours, and it is discarded, with no
\* database call and no error, exactly if it is more than 24 hours.
C4_PlayTime ==
    /\ [](/\ step.pt = "added" => step.elapsed <= PlayTimeLimit
          /\ step.pt = "error_db" => step.elapsed <= PlayTimeLimit
          /\ step.pt = "discarded" =>
                step.elapsed > PlayTimeLimit /\ step.err \notin {"gi", "db"})
    /\ [][step'.pt \in {"added", "error_db", "discarded"}
            => /\ game_info # NoGame
               /\ step'.elapsed = now - game_info.start_time]_vars

\* A session of more than 24 hours has been discarded, and the daemon goes on.
C4_Discarded ==
    /\ step.pt = "discarded"
    /\ step.elapsed > PlayTimeLimit
    /\ pc # "failed"

\* C5: terminate(child) sends SIGTERM first (to a child that has a pid); when
\* the child has exited by the end of the wait, no SIGKILL is sent; when it
\* has not, SIGKILL is sent once, after SIGTERM and only when the five
\* seconds have passed.
C5_Terminate ==
    /\ [](pc = "terminate" =>
            term.sigs = IF Child(S, term.target) \in {"none", "reaped"}
                        THEN << >> ELSE << "SIGTERM" >>)
    /\ [](step.term_end = "exited" => step.sigs \in {<< >>, << "SIGTERM" >>})
    /\ [](step.term_end = "timeout" => step.sigs = << "SIGTERM", "SIGKILL" >>)
    /\ [][/\ step'.term_end = "timeout"
             => term.expired /\ Child(S, term.target) \in {"running", "stopped"}
          /\ step'.term_end = "exited"
             => Child(S, term.target) \in {"zombie", "reaped"}]_vars

\* The foreground process did not exit within the five seconds and was sent
\* SIGKILL.
C5_Killed ==
    /\ step.term_end = "timeout"
    /\ step.sigs = << "SIGTERM", "SIGKILL" >>
    /\ main = "zombie"

\* C6: after save(s) has succeeded, a load() that can read the file finds
\* the record parsable, leaves the file as it is and, when it returns a
\* state, returns one with the volume and the brightness of s.
C6_RoundTrip ==
    step.fired = "load" /\ obs.saved.ok /\ step.found # "unreadable" =>
        /\ step.found = "parsed"
        /\ file # Absent
        /\ step.err \in {"none", "date"}
        /\ step.err = "none" =>
              /\ state.volume = obs.saved.state.volume
              /\ state.brightness = obs.saved.state.brightness

\* The least volume and the greatest brightness have been saved and loaded
\* again, into a memory that held other values.
C6_Reloaded ==
    /\ step.fired = "load"
    /\ step.found = "parsed"
    /\ step.err = "none"
    /\ obs.saved.ok
    /\ state.volume = (0 - I32_MAX) - 1
    /\ state.brightness = U8_MAX

\* C7: when Menu is held (the press was routed), no other key has been
\* pressed since, and an autorepeat of Menu arrives LONG_PRESS_DURATION or
\* more after the press, show-hotkeys runs, once for the hold; and the
\* release of Menu that follows does not toggle the menu overlay.
C7_LongPress ==
    /\ [](obs.hold.shows <= 1)
    /\ [][/\ "Menu" \in keys /\ ~obs.hold.other /\ pressed_menu = "long"
             /\ step'.event = MenuRepeat
             => /\ obs'.hold.shows = 1
                /\ obs.hold.shows = 0 => step'.fired = "show_hotkeys"
                /\ obs.hold.shows = 1 => step'.fired = "none"
          /\ obs.hold.shows = 1 /\ step'.event = MenuReleased
             => step'.fired \notin MenuActions]_vars

\* In a game whose core has a menu, Menu was held alone for the long press,
\* show-hotkeys ran, and the release of Menu has fired nothing.
C7_Shown ==
    /\ step.event = MenuReleased
    /\ step.hold = [other |-> FALSE, shows |-> 1, used |-> FALSE]
    /\ step.fired = "none"
    /\ game_info # NoGame
    /\ game_info.has_menu
    /\ keys = {}
    /\ pc = "loop"

\* C8: while a game whose core has a menu is active, a press of Menu (routed)
\* and its release, with no other key pressed and no show-hotkeys in between
\* and no other key down, toggles the menu overlay: the overlay is spawned
\* when no handle is held, and terminated when one is.
C8_ShortTap ==
    [][/\ "Menu" \in keys /\ ~obs.hold.other /\ obs.hold.shows = 0
       /\ held = {"Menu"}
       /\ game_info # NoGame /\ game_info.has_menu
       /\ step'.event = MenuReleased
       /\ step'.err = "none"
       => step'.fired = IF menu = "none" THEN "menu_spawn"
                        ELSE "menu_terminate"]_vars

\* C9: when another key has been pressed since the press of Menu, no step up
\* to the release of Menu, and the release itself, runs show-hotkeys or
\* toggles the menu overlay.
C9_Chord ==
    [][("Menu" \in keys /\ obs.hold.other) => step'.fired \notin MenuActions]_vars

\* In a game whose core has a menu, another key was pressed while Menu was
\* held, and the release of Menu, with nothing else down, has fired nothing.
C9_Chorded ==
    /\ step.event = MenuReleased
    /\ step.hold = [other |-> TRUE, shows |-> 0, used |-> FALSE]
    /\ step.fired = "none"
    /\ game_info # NoGame
    /\ game_info.has_menu
    /\ keys = {}
    /\ held = {}
    /\ pc = "loop"

\* C10: there is never more than one live foreground process nor more than
\* one live menu overlay: no live process has lost its handle to a new one.
C10_OneProcess ==
    /\ (IF Live(main) THEN 1 ELSE 0) + orphans.main <= 1
    /\ (IF Live(menu) THEN 1 ELSE 0) + orphans.menu <= 1

\* The foreground process has exited and another has been spawned, while a
\* menu overlay is live.
C10_Respawned ==
    /\ step.fired = "spawn_main"
    /\ Live(main)
    /\ Live(menu)
    /\ orphans = [main |-> 0, menu |-> 0]

\* C11: is_terminating is monotonic.  It is false when the daemon is
\* constructed; the only step that sets it is the one in which handle_quit
\* goes on after terminate() of the foreground process, the state saved
\* before; and no step clears it.
C11_Monotonic ==
    /\ ~is_terminating
    /\ [][/\ is_terminating => is_terminating'
          /\ ~is_terminating /\ is_terminating'
             => /\ pc = "terminate"
                /\ term.target = "main"
                /\ term.cont = "quit_flag"
                /\ obs.saves = 1
                /\ obs.main_terms = 1]_vars

\* The flag is set, the daemon is back in its loop, and a later battery check
\* has called handle_quit again.
C11_StillSet ==
    /\ is_terminating
    /\ step.trigger = "battery"
    /\ step.checked
    /\ pc = "select"

\* C12: over a whole execution, the startup charging block included,
\* platform.shutdown() is called at most once, by whatever code, and the
\* state record is saved at most once.
C12_OnceOverall ==
    /\ obs.poweroffs + obs.charge_offs <= 1
    /\ obs.saves <= 1

\* C13: the state record is written at each shutdown and at no other time.
\* Whenever platform.shutdown() has been called, by handle_quit or by the
\* charging block, the record was saved before, with the time of the save as
\* its timestamp; and a step saves the record only by calling handle_quit.
C13_SavedAtShutdown ==
    /\ [](obs.poweroffs + obs.charge_offs > 0 =>
             /\ obs.saves > 0
             /\ obs.saved.ok
             /\ file = to_string(obs.saved.state))
    /\ [][obs'.saves # obs.saves =>
             /\ step'.trigger # "none"
             /\ obs'.saved.ok => obs'.saved.state.time = now]_vars

\* C14: terminate(child) returns.  Whenever the daemon is in terminate() of
\* the foreground process or of the menu overlay, it eventually leaves that
\* call, whether the child exits, ignores SIGTERM or is stopped.
C14_Returns ==
    /\ (pc = "terminate" /\ term.target = "main")
          ~> ~(pc = "terminate" /\ term.target = "main")
    /\ (pc = "terminate" /\ term.target = "menu")
          ~> ~(pc = "terminate" /\ term.target = "menu")

\* terminate() of a stopped menu overlay has ended by the timeout, with
\* SIGKILL, and the daemon has gone on.
C14_StoppedKilled ==
    /\ step.term_end = "timeout"
    /\ step.sigs = << "SIGTERM", "SIGKILL" >>
    /\ menu = "zombie"
    /\ main = "stopped"
    /\ pc = "terminate"
    /\ term.target = "main"

\* C15: the low-battery protection is live.  With a battery that stays at or
\* below the threshold and does not charge, a daemon waiting in its main
\* loop eventually reads the battery and calls handle_quit (or has exited on
\* an error), whether any key, signal or child exit arrives or not.
C15_LowBatteryLive ==
    (pc = "select" /\ obs.saves = 0)
        ~> (step.trigger = "battery" \/ obs.saves > 0 \/ pc = "failed")

\* C16: save is crash-atomic.  When the daemon crashes at any point of
\* save(), the record on storage holds the text it held before or the
\* complete text of the state being saved.
C16_CrashAtomic ==
    [][step'.fired = "save_crash" => file' \in {file, to_string(state)}]_vars

\* C17: load() does not fail for what the record holds.  Whatever is on
\* storage, a load whose remove_file and date commands work returns a state;
\* a load fails only with the error of one of those calls.  An absent record
\* gives the defaults and stays absent; a record that cannot be read or
\* parsed is deleted and gives the defaults, so that the next load finds the
\* record absent.
C17_LoadTotal ==
    /\ [](\A readOk \in BOOLEAN : Load(file, now, readOk, TRUE, TRUE).ok)
    /\ [][step'.fired = "load" =>
            /\ step'.err \in {"none", "date", "remove"}
            /\ step'.err = "date" => step'.found = "parsed"
            /\ step'.err = "remove" => step'.found \in {"unreadable", "unparsable"}
            /\ file = Absent =>
                  /\ step'.found = "absent"
                  /\ step'.err = "none"
                  /\ file' = Absent
                  /\ state' = NewState(now)
            /\ step'.found \in {"unreadable", "unparsable"} /\ step'.err = "none" =>
                  /\ file' = Absent
                  /\ state' = NewState(now)]_vars

\* A record whose brightness does not fit was found unparsable and deleted,
\* and the defaults were returned.
C17_Deleted ==
    /\ step.fired = "load"
    /\ step.found = "unparsable"
    /\ step.err = "none"
    /\ file = Absent
    /\ state.volume = DefaultVolume
    /\ state.brightness = DefaultBrightness
    /\ obs.saves = 0

VolUpPressed == [kind |-> "Pressed", key |-> "VolUp"]

\* C18: the scenario.  The daemon starts with the saved state (time T0,
\* volume 10, brightness 50).  Each press of VolUp without Menu adds one to
\* the volume, so two presses make it 12.  When a battery check later reads
\* 3 percent, not charging, the step saves the state with the volume and the
\* brightness of that moment and a time after T0, and begins terminate() of
\* the foreground process; the power-off follows, and there is never more
\* than one save, one terminate and one power-off.
C18_Scenario ==
    /\ state = Saved /\ now = Saved.time /\ Saved.volume = 10 /\ Saved.brightness = 50
    /\ [](obs.saves <= 1 /\ obs.main_terms <= 1 /\ obs.poweroffs <= 1)
    /\ [](obs.poweroffs = 1 =>
            /\ obs.saves = 1 /\ obs.main_terms = 1
            /\ file = to_string(obs.saved.state))
    /\ [](obs.saved.ok =>
            /\ file = to_string(obs.saved.state)
            /\ obs.saved.state.time > Saved.time
            /\ obs.saved.state.brightness = Saved.brightness)
    /\ [][step'.event = VolUpPressed /\ step'.err = "none" =>
            state'.volume = Min(state.volume + 1, VOLUME_MAX)]_vars
    /\ [][step'.checked /\ battery' = Low /\ ~is_terminating /\ step'.err = "none" =>
            /\ step'.trigger = "battery"
            /\ obs'.saved = [ok |-> TRUE,
                             state |-> [time |-> now, volume |-> state.volume,
                                        brightness |-> state.brightness]]
            /\ pc' = "terminate"
            /\ term'.target = "main"]_vars
    /\ (step.trigger = "battery" /\ pc = "terminate")
          ~> (obs.poweroffs = 1 \/ pc = "failed")

\* The scenario's end: after two presses the record holds volume 12, the
\* brightness as it was and a later time, the foreground process has been
\* terminated and the power-off called once.
C18_Done ==
    /\ is_terminating
    /\ obs.saves = 1
    /\ obs.main_terms = 1
    /\ obs.poweroffs = 1
    /\ battery = Low
    /\ ~Live(main)
    /\ file = to_string([time |-> Saved.time + TickHours,
                         volume |-> 12, brightness |-> 50])

\* C19: the order of handle_quit.  The state is saved first: when the save
\* fails nothing else is done.  With a game active the play time is recorded
\* next, and a menu overlay that is held is terminated before the foreground
\* process; terminate() of the foreground process begins in the step that
\* ends terminate() of the overlay, or at once when there is none.  The flag,
\* the acknowledgment and platform.shutdown() come only when terminate() of
\* the foreground process has returned, and the power-off only after the
\* acknowledgment has succeeded.
C19_Order ==
    /\ [](pc = "terminate" /\ term.cont \in {"quit_main", "quit_flag"} =>
            /\ obs.saves = 1 /\ obs.saved.ok
            /\ obs.poweroffs = 0 /\ ~is_terminating
            /\ obs.main_terms = IF term.cont = "quit_main" THEN 0 ELSE 1
            /\ term.target = IF term.cont = "quit_main" THEN "menu" ELSE "main")
    /\ [][step'.trigger # "none" /\ ~is_terminating =>
            /\ obs'.saves = 1
            /\ obs'.poweroffs = 0 /\ ~is_terminating'
            /\ step'.err \in {"none", "save", "gi", "db"}
            /\ step'.err = "save" =>
                  ~obs'.saved.ok /\ step'.pt = "none" /\ obs'.main_terms = 0
            /\ step'.err \in {"gi", "db"} =>
                  obs'.saved.ok /\ game_info # NoGame /\ obs'.main_terms = 0
            /\ step'.err = "none" =>
                  /\ obs'.saved = [ok |-> TRUE, state |-> [state EXCEPT !.time = now]]
                  /\ step'.pt = IF game_info = NoGame THEN "none"
                                ELSE IF now - game_info.start_time > PlayTimeLimit
                                THEN "discarded" ELSE "added"
                  /\ pc' = "terminate"
                  /\ term'.cont = IF game_info # NoGame /\ menu' # "none"
                                  THEN "quit_main" ELSE "quit_flag"]_vars
    /\ [][pc = "terminate" /\ term.cont = "quit_main" => pc' = "terminate"]_vars
    /\ [][pc = "terminate" /\ term.cont = "quit_main" /\ term' # term
            /\ term'.target # "menu" =>
            /\ step'.term_end # "none"
            /\ ~Live(menu')
            /\ term'.target = "main" /\ term'.cont = "quit_flag"
            /\ obs'.main_terms = 1]_vars
    /\ [][is_terminating' # is_terminating \/ obs'.poweroffs # obs.poweroffs =>
            /\ pc = "terminate" /\ term.cont = "quit_flag"
            /\ step'.term_end # "none"
            /\ ~Live(main')
            /\ is_terminating'
            /\ step'.err \in {"none", "cmd", "platform"}
            /\ step'.err = "cmd" => obs'.poweroffs = obs.poweroffs
            /\ step'.err # "cmd" => obs'.poweroffs = 1]_vars

\* With a game active and the menu overlay open, handle_quit has saved the
\* state, recorded the play time, terminated the overlay and then the game,
\* and called platform.shutdown().
C19_AllSteps ==
    /\ obs.saves = 1 /\ obs.saved.ok
    /\ game_info # NoGame
    /\ menu = "zombie"
    /\ main = "zombie"
    /\ obs.main_terms = 1
    /\ step.term_end = "timeout"
    /\ is_terminating
    /\ obs.poweroffs = 1
    /\ pc = "loop"

\* C20: once is_terminating is set, the shutdown is completed: whether the
\* acknowledgment (show --darken, say) succeeds or fails, platform.shutdown()
\* has been called by the time handle_quit is left.
C20_Completes == is_terminating => obs.poweroffs = 1

\* C21: when select! sees the foreground process exited and is_terminating
\* is not set, the step records the play time, deletes the game info and
\* spawns a foreground process, so that one runs when the loop goes on (an
\* I/O error ends the daemon instead); when is_terminating is set, the step
\* updates no play time, leaves the game info and spawns nothing.
C21_Respawn ==
    [][step'.waited =>
          /\ pc = "select" /\ Exited(main)
          /\ is_terminating =>
                /\ step'.pt = "none" /\ step'.fired = "none"
                /\ game_info' = game_info
                /\ main' = "reaped"
                /\ pc' = "loop"
          /\ ~is_terminating =>
                /\ step'.pt = (IF game_info = NoGame THEN "skipped"
                               ELSE IF step'.err = "gi" THEN "error_read"
                               ELSE IF now - game_info.start_time > PlayTimeLimit
                               THEN "discarded"
                               ELSE IF step'.err = "db" THEN "error_db"
                               ELSE "added")
                /\ step'.err \in {"none", "gi", "db", "spawn"}
                /\ step'.err = "none" =>
                      /\ game_info' = NoGame
                      /\ main' = "running"
                      /\ step'.fired = "spawn_main"
                      /\ pc' = "loop"
                /\ step'.err # "none" => pc' = "failed" /\ main' # "running"]_vars

\* A game has exited: its play time was added, the game info deleted and the
\* launcher spawned.
C21_Respawned ==
    /\ step.waited
    /\ step.pt = "added"
    /\ step.elapsed = TickHours
    /\ step.fired = "spawn_main"
    /\ game_info = NoGame
    /\ main = "running"
    /\ ~is_terminating
    /\ pc = "loop"

\* C22: the order of handle_suspend.  While the daemon waits in it, the
\* platform is suspended and the foreground process does not run.  The main
\* loop goes on, and the shutdown started by the suspend's idle timeout
\* begins, only with the platform awake again and the foreground process
\* continued.
C22_SuspendOrder ==
    /\ [](pc = "suspended" => obs.hw = "suspended" /\ main # "running")
    /\ [](pc \in {"loop", "select", "terminate"} =>
            obs.hw = "awake" /\ main # "stopped")
    /\ [][step'.fired = "suspend" /\ step'.err = "none" =>
            /\ pc' = "suspended"
            /\ Live(main) => main' = "stopped"]_vars
    /\ [][pc = "suspended" /\ pc' = "loop" /\ step'.trigger = "none" =>
            /\ step'.polled.kind = "Released"
            /\ step'.polled.key \in {"Power", "LidClose"}
            /\ obs'.hw = "awake"
            /\ Live(main) => main' = "running"]_vars
    /\ [][step'.trigger = "suspend_timeout" =>
            /\ pc = "suspended"
            /\ obs'.hw = "awake"
            /\ Live(main) => main' = "running"]_vars

\* The suspend's idle timeout has woken the platform, continued the
\* foreground process and begun the shutdown.
C22_TimedOut ==
    /\ step.trigger = "suspend_timeout"
    /\ obs.hw = "awake"
    /\ main = "running"
    /\ obs.saves = 1
    /\ pc = "terminate"

\* C23: the idle timeout of the suspend is fixed.  When IDLE_TIMEOUT has
\* passed since handle_suspend was entered and the daemon still waits in it,
\* the timeout is due, whatever key events other than the waking releases
\* have arrived meanwhile.
C23_FixedTimeout ==
    pc = "suspended" /\ obs.asleep.entry >= IdleTicks =>
        obs.asleep.sleep >= IdleTicks

\* C24: the charging screen (handle_charging) is entered only from the start
\* of run_event_loop and only with a battery that reports charging; inside it
\* the foreground process does not run; a tick that finds the battery no
\* longer charging calls the power-off, and no other tick does; and the
\* daemon goes on to the main loop only by a release of Power, with the
\* foreground process continued.  No other key event leaves it.
C24_ChargingBlock ==
    /\ [][pc' = "charging" /\ pc # "charging" =>
            pc = "start" /\ battery'.charging]_vars
    /\ [](pc = "charging" => main # "running" /\ obs.hw = "suspended")
    /\ [][pc = "charging" /\ pc' \notin {"charging", "failed"} =>
            /\ pc' = "loop"
            /\ step'.polled = [kind |-> "Released", key |-> "Power"]
            /\ Live(main) => main' = "running"]_vars
    /\ [][step'.tick = "unplugged" =>
            pc = "charging" /\ step'.fired = "charging_shutdown"]_vars
    /\ [][step'.fired = "charging_shutdown" => step'.tick = "unplugged"]_vars

C24_PowerReleased ==
    /\ pc = "loop" /\ step.fired = "charged"
    /\ step.polled = [kind |-> "Released", key |-> "Power"]
    /\ main = "running" /\ obs.hw = "awake"

\* C25: the auto-sleep timer of the main loop fires only in select! and only
\* with a duration other than 0 minutes.  When it fires with the battery
\* charging and auto_sleep_when_charging off, nothing is done and the loop
\* goes round; otherwise handle_quit is called, which begins the shutdown
\* unless one is already under way.
C25_IdlePolicy ==
    /\ [][step'.fired = "idle" =>
            pc = "select" /\ power_settings.auto_sleep_duration_minutes # 0]_vars
    /\ [][/\ step'.fired = "idle"
          /\ ~power_settings.auto_sleep_when_charging /\ battery.charging
          => /\ step'.trigger = "none" /\ pc' = "loop"
             /\ UNCHANGED <<is_terminating, main, menu, state, obs>>]_vars
    /\ [][/\ step'.fired = "idle"
          /\ power_settings.auto_sleep_when_charging \/ ~battery.charging
          => /\ step'.trigger = "idle"
             /\ ~is_terminating /\ step'.err = "none" =>
                    pc' = "terminate" /\ obs'.saves = obs.saves + 1]_vars

C25_Skipped ==
    /\ step.fired = "idle" /\ step.trigger = "none" /\ pc = "loop"
    /\ battery.charging /\ ~power_settings.auto_sleep_when_charging

\* C26: the routing of the keys.  With Menu down in the key map, a press or
\* repeat of Up or VolUp adds 5 to the brightness and one of Down or VolDown
\* takes 5 off it, the volume untouched; one of Left takes 1 off the volume
\* and one of Right adds 1 to it, the brightness untouched; the release of
\* Power takes a screenshot and changes neither; and none of these calls
\* handle_quit or suspends.  With Menu up, a press or repeat of VolUp adds 1
\* to the volume and one of VolDown takes 1 off it, and no event of Up, Down,
\* Left or Right changes the volume or the brightness.
C26_Routing ==
    [][LET e == step'.event
           PR == {"Pressed", "Autorepeat"}
           Vol(add) == /\ step'.fired = "volume" /\ step'.add = add
                       /\ state'.volume = Clamp(state.volume + add, 0, VOLUME_MAX)
                       /\ state'.brightness = state.brightness
           Bri(add) == /\ step'.fired = "brightness" /\ step'.add = add
                       /\ state'.brightness =
                              Clamp(state.brightness + add, 0, BRIGHTNESS_MAX)
                       /\ state'.volume = state.volume
       IN  /\ "Menu" \in keys =>
                /\ Is(e, PR, {"Up", "VolUp"}) => Bri(5)
                /\ Is(e, PR, {"Down", "VolDown"}) => Bri(-5)
                /\ Is(e, PR, {"Left"}) => Vol(-1)
                /\ Is(e, PR, {"Right"}) => Vol(1)
                /\ Is(e, {"Released"}, {"Power"}) =>
                       /\ step'.err = "none" => step'.fired = "screenshot"
                       /\ state' = state
                /\ e.key \in RouteKeys \ {"Menu"} =>
                       /\ step'.trigger = "none"
                       /\ pc' \in {"loop", "failed"}
                       /\ is_terminating' = is_terminating
           /\ "Menu" \notin keys =>
                /\ Is(e, PR, {"VolUp"}) => Vol(1)
                /\ Is(e, PR, {"VolDown"}) => Vol(-1)
                /\ e.key \in {"Up", "Down", "Left", "Right"} =>
                       state' = state /\ step'.fired = "none"]_vars

C26_MenuVolUp ==
    /\ step.event = [kind |-> "Pressed", key |-> "VolUp"]
    /\ keys = {"Menu", "VolUp"}
    /\ step.fired = "brightness" /\ step.add = 5
    /\ state.brightness = 55 /\ state.volume = 10

\* C27: the toggle of the menu overlay pauses the foreground process when it
\* spawns the overlay, and resumes it when it terminates the overlay.
C27_TogglePauses ==
    [][/\ step'.fired = "menu_spawn" /\ step'.err = "none" /\ Live(main) =>
            main' = "stopped"
       /\ step'.fired = "menu_terminate" /\ Live(main) =>
            main' = "running"]_vars

\* C28: an error of the hardware is not fatal.  A step in which set_volume
\* or set_brightness was called does not end the daemon, and neither does
\* the battery read of a tick of the charging screen.
C28_NotFatal ==
    [][/\ step'.fired \in {"volume", "brightness"} => pc' # "failed"
       /\ pc = "charging" => step'.err # "battery"]_vars

\* C29: the key map follows every Pressed and Released event, those polled
\* inside handle_suspend and handle_charging included: a key is down in
\* self.keys exactly when its last Pressed or Released event was a Pressed.
C29_KeyMap == keys = held

\* C30: the saved state is in range in every state of the daemon, also after
\* load() of any record it can parse: the volume is within 0..20 and the
\* brightness within 0..100 when they are applied at startup and before and
\* after every adjustment, and the brightness arithmetic does not overflow.
C30_InRange ==
    /\ state.volume \in 0..VOLUME_MAX
    /\ state.brightness \in 0..BRIGHTNESS_MAX
    /\ step.err # "overflow"

\* C31: while Menu is up in the key map, the power button and the lid do
\* only what they are configured to: with power_button_action Nothing no
\* event of Power suspends or calls handle_quit, and with lid_close_action
\* Nothing no event of LidClose does.
C31_OnlyConfigured ==
    [][LET e == step'.event
           Quiet == step'.trigger = "none" /\ step'.fired # "suspend"
       IN  "Menu" \notin keys =>
              /\ e.key = "Power" /\ power_settings.power_button_action = "Nothing"
                    => Quiet
              /\ e.key = "LidClose" /\ power_settings.lid_close_action = "Nothing"
                    => Quiet]_vars

\* C32: the pauses are balanced.  Whenever the daemon is in its main loop
\* (at its head or waiting in select!) with is_terminating unset, the
\* foreground process is not stopped: the SIGSTOP of the long press of Menu,
\* of the suspend and of the charging screen has been followed by a SIGCONT
\* before the loop goes on.
C32_Balanced ==
    /\ [](pc \in {"loop", "select"} /\ ~is_terminating => main # "stopped")
    /\ [][step'.fired \in {"show_hotkeys", "charged"} /\ step'.err = "none" =>
            pc' = "loop" /\ (Live(main) => main' = "running")]_vars

C32_HotkeysShown ==
    /\ step.fired = "show_hotkeys" /\ step.err = "none"
    /\ pc = "loop" /\ ~is_terminating
    /\ main = "running" /\ menu = "running"

\* C33: a menu overlay is live only while a game is active.  No overlay the
\* daemon spawned is live once the game has exited and the launcher has
\* been spawned in its place, nor once handle_quit has run.
C33_OverlayInGame ==
    /\ pc # "failed" /\ Live(menu) => game_info # NoGame
    /\ pc # "failed" /\ is_terminating => ~Live(menu)

\* C34: a hold of Menu that was used as a modifier is consumed.  When a
\* hotkey (brightness, volume, screenshot) has fired since Menu was pressed,
\* be it by the repeat or the release of a key that was down before Menu,
\* the release of Menu neither spawns nor terminates the menu overlay.
C34_Consumed ==
    [][step'.event = MenuReleased /\ obs.hold.used =>
            step'.fired \notin {"menu_spawn", "menu_terminate"}]_vars

\* C35: the shutdown is terminal.  Once is_terminating is set, no step
\* suspends (handle_suspend is not entered) and no step spawns a foreground
\* process or a menu overlay, whatever key events arrive.
C35_Terminal ==
    [][is_terminating =>
            step'.fired \notin {"suspend", "spawn_main", "menu_spawn"}]_vars

\* C36: the play time is counted once across a restart.  A session that is
\* resumed when the daemon starts gets the time of the start as its start
\* time, so every interval update_play_time adds lies within the current
\* run of the daemon: neither the interval recorded at the shutdown before
\* nor the time the device was off is in it.
C36_CountedOnce ==
    /\ [](step.pt = "added" => step.elapsed <= now - obs.boot)
    /\ [](game_info # NoGame /\ pc # "failed" =>
            game_info.start_time \in obs.boot..now)
    /\ [][step'.fired = "spawn_main" /\ step'.err = "none" /\ game_info' # NoGame
            => game_info'.start_time = now']_vars

C36_SecondRun ==
    /\ obs.boot = 2 * TickHours
    /\ now = obs.boot + TickHours
    /\ step.pt = "added" /\ step.elapsed = TickHours
    /\ step.trigger = "signal"

====
